---------------------------- MODULE Spec2Model ----------------------------
(***************************************************************************)
(* A model of the content pipeline's three agents:                         *)
(*   ContentStrategyAgent      (src/content_strategy_agent.py)             *)
(*   ContentScriptwriterAgent  (src/content_scriptwriter_agent.py)         *)
(*   VisualContentPlannerAgent (src/visual_content_planner_agent.py)       *)
(*                                                                         *)
(* Python str values are TLC strings; the str methods the code uses        *)
(* (split, replace, lower, slicing, "in", len, f-string number formats)    *)
(* are the operators of the first section, computed character by           *)
(* character.  Python's None is the reserved value None, which is in no    *)
(* input pool.  A call of the generation service (openai) is an input of   *)
(* the environment: it fails, returns unusable text or returns usable      *)
(* text.  random.choice / random.sample are choices with \E.               *)
(*                                                                         *)
(* Each agent has its own specification (SpecPlanner, SpecWriter,          *)
(* SpecAnalyzer); the variables of the other agents stay idle in it.       *)
(* SpecAgents starts any one of the three, SpecPipeline is the             *)
(* /full-pipeline handler, SpecSuggest calls the planner's helpers on      *)
(* their own, SpecConcurrent runs two such calls side by side and          *)
(* SpecTwin runs generate_script on two requests with the same random      *)
(* draws.                                                                  *)
(***************************************************************************)
EXTENDS Integers, Sequences, FiniteSets, TLC

VARIABLES
    vpRequest,       \* VisualPlanRequest handed to create_visual_plan
    vpResult,        \* what create_visual_plan returned, and by which path
    vpCalls,         \* the generation calls create_visual_plan has made, in order
    swRequest,       \* ScriptRequest handed to generate_script
    swPc,            \* the statement generate_script is at
    selected_theme,  \* generate_script's local of that name
    hook_selection,  \* generate_script's local of that name
    script_body,     \* generate_script's local of that name
    swCalls,         \* the calls generate_script has made, in order
    swRaised,        \* the exception that left generate_script, if any
    swResponse,      \* the ScriptResponse generate_script returned
    azRequest,       \* ContentAnalysisRequest handed to analyze_videos
    azPc,            \* the statement analyze_videos is at
    azLocals,        \* analyze_videos's four category locals
    azCalls,         \* the generation calls analyze_videos has made, in order
    azResult,        \* the ContentAnalysisResult analyze_videos returned
    fpRequest,       \* the body of a /full-pipeline request
    fpPc,            \* the stage full_pipeline is at
    fpService,       \* whether the generation service answers during the request
    fpResponse,      \* what full_pipeline returned
    hcCall,          \* a call of one of the planner's helpers: name and arguments
    hcReturned,      \* what the calls of that helper returned, in order
    planner_self,    \* the attributes of the module-level visual_planner_agent
    ccRequest,       \* the arguments of two calls running side by side
    ccPc,            \* the statement each of the two calls is at
    ccLocal,         \* each call's locals platform_effects / available_effects
    ccResult,        \* what each of the two calls returned
    twRun,           \* two generate_script calls that draw the same random values
    twPicks,         \* the values random.choice has drawn for both calls
    twPc             \* the statement the two calls are at

plannerVars == <<vpRequest, vpResult, vpCalls>>

writerVars ==
    <<swRequest, swPc, selected_theme, hook_selection, script_body, swCalls,
      swRaised, swResponse>>

analyzerVars == <<azRequest, azPc, azLocals, azCalls, azResult>>

pipelineVars == <<fpRequest, fpPc, fpService, fpResponse>>

helperVars == <<hcCall, hcReturned>>

concurrentVars == <<planner_self, ccRequest, ccPc, ccLocal, ccResult>>

\* the variables that move only when helpers are called on their own
twinVars == <<twRun, twPicks, twPc>>

aloneVars == <<helperVars, concurrentVars, twinVars>>

\* the variables no agent owns
restVars == <<pipelineVars, aloneVars>>

vars == <<plannerVars, writerVars, analyzerVars, restVars>>

---------------------------------------------------------------------------
(* Python str and number formatting                                        *)

None == "<None>"

Min(a, b) == IF a < b THEN a ELSE b
Max(a, b) == IF a > b THEN a ELSE b

\* s[i] (1-based)
Char(s, i) == SubSeq(s, i, i)

\* s[:n]
Prefix(s, n) == SubSeq(s, 1, Min(n, Len(s)))

\* s[n:] (0-based n, as in Python)
Suffix(s, n) == IF n >= Len(s) THEN "" ELSE SubSeq(s, n + 1, Len(s))

\* s.find(pat) + 1 searching from position from (1-based); 0 when absent
Find(s, pat, from) ==
    LET hits == {i \in from..(Len(s) - Len(pat) + 1) :
                    SubSeq(s, i, i + Len(pat) - 1) = pat}
    IN  IF hits = {} THEN 0 ELSE CHOOSE i \in hits : \A j \in hits : i <= j

\* pat in s
Contains(s, pat) == pat = "" \/ Find(s, pat, 1) # 0

\* s.split(sep), sep non-empty
RECURSIVE Split(_, _)
Split(s, sep) ==
    LET i == Find(s, sep, 1)
    IN  IF i = 0 THEN <<s>>
        ELSE <<Prefix(s, i - 1)>> \o Split(Suffix(s, i - 1 + Len(sep)), sep)

\* sep.join(parts)
RECURSIVE Join(_, _)
Join(parts, sep) ==
    IF Len(parts) = 0 THEN ""
    ELSE IF Len(parts) = 1 THEN parts[1]
    ELSE parts[1] \o sep \o Join(Tail(parts), sep)

IsSpace(c) == c \in {" ", "\n", "\t"}

\* positions where a whitespace-delimited word starts
WordStarts(s) ==
    {i \in 1..Len(s) : ~IsSpace(Char(s, i)) /\ (i = 1 \/ IsSpace(Char(s, i - 1)))}

\* last position of the word starting at i
WordEnd(s, i) ==
    LET ends == {j \in i..Len(s) : j = Len(s) \/ IsSpace(Char(s, j + 1))}
    IN  CHOOSE j \in ends : \A k \in ends : j <= k

RECURSIVE SortedSeq(_)
SortedSeq(S) ==
    IF S = {} THEN <<>>
    ELSE LET m == CHOOSE x \in S : \A y \in S : x <= y
         IN  <<m>> \o SortedSeq(S \ {m})

\* s.split()
Words(s) ==
    LET st == SortedSeq(WordStarts(s))
    IN  [k \in 1..Len(st) |-> SubSeq(s, st[k], WordEnd(s, st[k]))]

\* len(s.split())
WordCount(s) == Cardinality(WordStarts(s))

\* s.replace(old, new), old non-empty
Replace(s, old, new) == Join(Split(s, old), new)

\* str(n), n >= 0
RECURSIVE Str(_)
Str(n) ==
    IF n < 10 THEN Char("0123456789", n + 1)
    ELSE Str(n \div 10) \o Char("0123456789", (n % 10) + 1)

\* f"{n:02d}"
Format02d(n) == IF n < 10 THEN "0" \o Str(n) ELSE Str(n)

\* f"{t//60}:{t%60:02d}"
FormatMSS(t) == Str(t \div 60) \o ":" \o Format02d(t % 60)

---------------------------------------------------------------------------
(* VisualContentPlannerAgent                                               *)

\* self.transitions
transitions ==
    <<"Cut", "Fade", "Dissolve", "Wipe", "Zoom In", "Zoom Out",
      "Slide Left", "Slide Right", "Whip Pan", "Split Screen">>

\* self.visual_effects
visual_effects ==
    [TikTok |->
        <<"Slow Motion", "Text Animation", "Green Screen", "Duet Effect",
          "Background Blur", "Color Filter", "Time Warp Scan", "Sticker Overlay",
          "Glitch Effect", "Tracking Text">>,
     Instagram |->
        <<"Boomerang", "Superzoom", "Face Filters", "GIF Stickers",
          "Color Filter", "Drawing Tools", "3D Text", "AR Effects",
          "Depth Effect", "Slow Motion">>,
     YouTube |->
        <<"Lower Thirds", "Closed Captions", "End Screen Elements",
          "Pop-up Cards", "Split Screen", "Screen-in-Screen", "Zoom Emphasis",
          "Motion Graphics", "Cross Fade", "Color Grading">>]

\* self.stock_footage_platforms
stock_footage_platforms ==
    <<"Pexels", "Pixabay", "Unsplash", "Storyblocks", "Mixkit", "Videvo",
      "Coverr">>

\* the lookup tables __init__ leaves on the planner
PlannerTables ==
    [transitions             |-> transitions,
     visual_effects          |-> visual_effects,
     stock_footage_platforms |-> stock_footage_platforms]

\* x or default
OrElse(x, default) == IF x = None \/ x = "" THEN default ELSE x

\* hook = request.hook or (first blank-line block, else first "."-clause)
hook_of(request) ==
    OrElse(request.hook,
           IF Contains(request.script, "\n\n")
           THEN Split(request.script, "\n\n")[1]
           ELSE Split(request.script, ".")[1])

\* cta = request.cta or "Follow for more content like this!"
cta_of(request) == OrElse(request.cta, "Follow for more content like this!")

\* title = hook if len(hook) < 60 else hook[:57] + "..."
plan_title(hook) == IF Len(hook) < 60 THEN hook ELSE Prefix(hook, 57) \o "..."

\* segments = script.split("\n\n") if "\n\n" in script else script.split(". ")
segments_of(script) ==
    IF Contains(script, "\n\n") THEN Split(script, "\n\n") ELSE Split(script, ". ")

\* content_segments slicing whatever the number of segments
content_segments_always_sliced(segments) ==
    SubSeq(segments, 2, Len(segments) - 1)

\* segments[1:-1] if len(segments) > 2 else segments
content_segments(segments) ==
    IF Len(segments) > 2 THEN SubSeq(segments, 2, Len(segments) - 1) ELSE segments

\* segment_duration without the bounds 3 and 10
segment_duration_unclamped(segments) == 30 \div Max(1, Len(segments) - 2)

\* max(3, min(10, 30 // max(1, len(segments) - 2)))
segment_duration(segments) ==
    Max(3, Min(10, 30 \div Max(1, Len(segments) - 2)))

\* f"{start//60}:{start%60:02d}-{end//60}:{end%60:02d}"
scene_timestamp(start_time, end_time) ==
    FormatMSS(start_time) \o "-" \o FormatMSS(end_time)

\* _suggest_text_overlay without the first-clause step
suggest_text_overlay_no_clause(segment) ==
    IF Len(segment) < 40 THEN segment
    ELSE IF Len(Words(segment)) > 5
    THEN Join(SubSeq(Words(segment), 1, 5), " ") \o "..."
    ELSE None

\* _suggest_text_overlay
suggest_text_overlay(segment) ==
    LET key_phrase == Split(segment, ".")[1]
        words == Words(segment)
    IN  IF Len(segment) < 40 THEN segment
        ELSE IF Contains(segment, ".") /\ Len(key_phrase) < 40 THEN key_phrase
        ELSE IF Len(words) > 5 THEN Join(SubSeq(words, 1, 5), " ") \o "..."
        ELSE None

\* hook_scene = SceneData(timestamp="0:00-0:05", ...)
hook_scene(hook, transition) ==
    [timestamp      |-> "0:00-0:05",
     script_segment |-> hook,
     text_overlay   |-> IF Len(hook) < 40 THEN hook ELSE None,
     transition     |-> transition]

\* next_total with the accumulation left out
next_total_stuck(total_seconds, duration) == total_seconds

\* total_seconds += segment_duration
next_total(total_seconds, duration) == total_seconds + duration

\* the content scene of one loop iteration
content_scene(segment, total_seconds, duration, transition) ==
    [timestamp      |-> scene_timestamp(total_seconds, total_seconds + duration),
     script_segment |-> segment,
     text_overlay   |-> suggest_text_overlay(segment),
     transition     |-> transition]

\* the loop over the content segments, from total_seconds on; trs are the
\* transitions random.choice returns, one per iteration
RECURSIVE content_scenes(_, _, _, _)
content_scenes(segs, total_seconds, duration, trs) ==
    IF Len(segs) = 0 THEN <<>>
    ELSE <<content_scene(Head(segs), total_seconds, duration, Head(trs))>>
         \o content_scenes(Tail(segs), next_total(total_seconds, duration),
                           duration, Tail(trs))

\* total_seconds when the loop is left
RECURSIVE total_after(_, _, _)
total_after(k, total_seconds, duration) ==
    IF k = 0 THEN total_seconds
    ELSE total_after(k - 1, next_total(total_seconds, duration), duration)

\* cta_scene with the transition argument left to SceneData's default
cta_scene_default_transition(cta, total_seconds) ==
    [timestamp      |-> scene_timestamp(total_seconds, total_seconds + 5),
     script_segment |-> cta,
     text_overlay   |-> IF Len(cta) < 40 THEN cta ELSE None,
     transition     |-> "Cut"]

\* cta_scene = SceneData(..., transition="Fade")
cta_scene(cta, total_seconds) ==
    [timestamp      |-> scene_timestamp(total_seconds, total_seconds + 5),
     script_segment |-> cta,
     text_overlay   |-> IF Len(cta) < 40 THEN cta ELSE None,
     transition     |-> "Fade"]

\* total_with_cta with the CTA scene's seconds not added
total_without_cta(total_seconds) == total_seconds

\* total_seconds += 5 after the CTA scene
total_with_cta(total_seconds) == total_seconds + 5

\* _create_visual_plan_template; trs[1] is the hook scene's transition,
\* trs[2..] those of the content scenes
create_visual_plan_template(request, trs) ==
    LET script   == OrElse(request.script, "")
        hook     == hook_of(request)
        cta      == cta_of(request)
        segments == segments_of(script)
        body     == content_segments(segments)
        duration == segment_duration(segments)
        after    == total_after(Len(body), 5, duration)
        scenes   == <<hook_scene(hook, trs[1])>>
                    \o content_scenes(body, 5, duration, Tail(trs))
                    \o (IF cta # "" THEN <<cta_scene(cta, after)>> ELSE <<>>)
        total    == IF cta # "" THEN total_with_cta(after) ELSE after
    IN  [path           |-> "template",
         title          |-> plan_title(hook),
         scenes         |-> scenes,
         total_duration |-> FormatMSS(total)]

\* _create_fallback_plan with the single scene holding the hook
create_fallback_plan_hook_scene(request) ==
    [path           |-> "fallback",
     title          |-> OrElse(request.hook, "Attention-grabbing hook"),
     scenes         |-> <<[timestamp      |-> "0:00-0:05",
                           script_segment |-> OrElse(request.hook, "Attention-grabbing hook"),
                           stock_footage  |-> <<"Person talking to camera", "Relevant B-roll">>,
                           text_overlay   |-> "Key message",
                           visual_effects |-> <<"Text Animation">>,
                           transition     |-> "Cut"]>>,
     total_duration |-> "0:30",
     music_recommendation    |-> "Upbeat background music",
     voiceover_style         |-> "Clear and engaging",
     stock_footage_platforms |-> <<"Pexels", "Pixabay">>,
     editing_tips            |-> <<"Keep it simple", "Focus on clear audio">>]

\* _create_fallback_plan: every field of the response is a constant but the
\* title and the scene's script_segment
create_fallback_plan(request) ==
    [path           |-> "fallback",
     title          |-> OrElse(request.hook, "Attention-grabbing hook"),
     scenes         |-> <<[timestamp      |-> "0:00-0:30",
                           script_segment |-> OrElse(request.script, ""),
                           stock_footage  |-> <<"Person talking to camera", "Relevant B-roll">>,
                           text_overlay   |-> "Key message",
                           visual_effects |-> <<"Text Animation">>,
                           transition     |-> "Cut"]>>,
     total_duration |-> "0:30",
     music_recommendation    |-> "Upbeat background music",
     voiceover_style         |-> "Clear and engaging",
     stock_footage_platforms |-> <<"Pexels", "Pixabay">>,
     editing_tips            |-> <<"Keep it simple", "Focus on clear audio">>]

\* _generate_visual_plan_with_gpt when the reply parses: plan_data is the
\* reply's JSON object, "full" with every key present, "empty" with none
\* (every plan_data.get falls back to its default)
generate_visual_plan_with_gpt(request, plan_data) ==
    IF plan_data = "full"
    THEN [path           |-> "gpt",
          title          |-> "Catchy Title",
          scenes         |-> <<[timestamp      |-> "0:00-0:05",
                                script_segment |-> "Script for this scene",
                                text_overlay   |-> "Text to display (if any)",
                                transition     |-> "Transition type"],
                               [timestamp      |-> "0:10-0:20",
                                script_segment |-> "Script for this scene",
                                text_overlay   |-> None,
                                transition     |-> "Cut"]>>,
          total_duration |-> "00:45"]
    ELSE [path           |-> "gpt",
          title          |-> hook_of(request),
          scenes         |-> <<>>,
          total_duration |-> "00:00"]

---------------------------------------------------------------------------
(* An agent that has no request                                            *)

NoScriptRequest ==
    [hook_patterns |-> <<>>, format_trends |-> <<>>, engagement_tactics |-> <<>>,
     content_themes |-> <<>>, platform |-> "all"]

NoHook == [type |-> "", hook |-> ""]

NoScript ==
    [title |-> "", script |-> "", hook_type |-> "", estimated_duration |-> 0,
     theme |-> "", cta |-> "", notes |-> <<>>]

\* the empty list a category local starts as
InitialLocal == [source |-> "initial", kind |-> "list", of |-> "", items |-> <<>>]

NoLocals ==
    [hook_patterns |-> InitialLocal, format_trends |-> InitialLocal,
     engagement_tactics |-> InitialLocal, content_themes |-> InitialLocal]

NoAnalysis ==
    [path |-> "none", hook_patterns |-> InitialLocal, format_trends |-> InitialLocal,
     engagement_tactics |-> InitialLocal, content_themes |-> InitialLocal,
     summary |-> ""]

AnalyzerIdle ==
    /\ azRequest = [videos |-> <<>>, analysis_type |-> "full"]
    /\ azPc = "idle"
    /\ azLocals = NoLocals
    /\ azCalls = <<>>
    /\ azResult = NoAnalysis

WriterIdle ==
    /\ swRequest = NoScriptRequest
    /\ swPc = "idle"
    /\ selected_theme = None
    /\ hook_selection = NoHook
    /\ script_body = None
    /\ swCalls = <<>>
    /\ swRaised = None
    /\ swResponse = NoScript

---------------------------------------------------------------------------
(* Inputs of the planner                                                   *)

\* most segments a generated script is joined from
MaxSegments == 3

\* the sentences scripts are built from, in script order
SegmentList ==
    <<"Stop scrolling", "It works.", "Try this one trick", "Save this",
      "Then share it">>

\* scripts that are no plain join: empty, and both separators at once
EdgeScripts == {"", "Stop. Look\n\nGo."}

\* the edge scripts and the first 1..MaxSegments sentences joined by blank
\* lines or by ". "
Scripts ==
    EdgeScripts \cup
    {Join(SubSeq(SegmentList, 1, k), sep) :
        k \in 1..Min(MaxSegments, Len(SegmentList)), sep \in {"\n\n", ". "}}

VisualPlanRequests ==
    [script : Scripts,
     hook   : {None, "Wait for it"},
     cta    : {None, "Follow me"},
     niche  : {None},
     tone   : {"engaging"},
     platform : {"TikTok"}]

NoPlan == [path |-> "pending", title |-> "", scenes |-> <<>>, total_duration |-> ""]

PlannerIdle ==
    /\ vpRequest = [script |-> "", hook |-> None, cta |-> None, niche |-> None,
                    tone |-> "engaging", platform |-> "TikTok"]
    /\ vpResult = [NoPlan EXCEPT !.path = "idle"]
    /\ vpCalls = <<>>

NoResponse == [analysis |-> NoAnalysis, script |-> NoScript, visual_plan |-> NoPlan]

PipelineIdle ==
    /\ fpRequest = [videos |-> <<>>, platform |-> "TikTok"]
    /\ fpPc = "idle"
    /\ fpService = "idle"
    /\ fpResponse = NoResponse

HelperIdle ==
    /\ hcCall = [fn |-> "idle", args |-> <<>>]
    /\ hcReturned = <<>>

ConcurrentIdle ==
    /\ planner_self = PlannerTables
    /\ ccRequest = <<>>
    /\ ccPc = <<>>
    /\ ccLocal = <<>>
    /\ ccResult = <<>>

TwinIdle ==
    /\ twRun = <<>>
    /\ twPicks = <<>>
    /\ twPc = "idle"

AloneIdle == HelperIdle /\ ConcurrentIdle /\ TwinIdle

RestIdle == PipelineIdle /\ AloneIdle

---------------------------------------------------------------------------
(* create_visual_plan: one action per way out of the handler               *)

\* the one generation call of _generate_visual_plan_with_gpt, and whether it
\* returned text
PlanCall(generated) ==
    [step |-> "_generate_visual_plan_with_gpt", generated |-> generated]

\* _generate_with_gpt calling the service a second time when the first call
\* fails
generate_with_gpt_retried(calls, generated) ==
    IF generated THEN Append(calls, PlanCall(TRUE))
    ELSE calls \o <<PlanCall(FALSE), PlanCall(FALSE)>>

\* _generate_with_gpt of the planner: one openai.ChatCompletion.create call,
\* its exception caught; the call log after it
generate_with_gpt(calls, generated) == Append(calls, PlanCall(generated))

\* the generation call returned JSON that parses into a plan
GptPlanReturned ==
    /\ vpResult.path = "pending"
    /\ \E plan_data \in {"full", "empty"} :
           vpResult' = generate_visual_plan_with_gpt(vpRequest, plan_data)
    /\ vpCalls' = generate_with_gpt(vpCalls, TRUE)
    /\ UNCHANGED <<vpRequest, writerVars, analyzerVars, restVars>>

\* the generation call failed, returned nothing or returned text that does
\* not parse into a plan: template plan, random.choice drawing from pool
TemplatePlanDrawn(pool) ==
    /\ vpResult.path = "pending"
    /\ \E picks \in [1..(1 + Len(content_segments(segments_of(vpRequest.script))))
                        -> 1..Len(pool)] :
           vpResult' = create_visual_plan_template(
                           vpRequest, [i \in DOMAIN picks |-> pool[picks[i]]])
    /\ \E generated \in BOOLEAN : vpCalls' = generate_with_gpt(vpCalls, generated)
    /\ UNCHANGED <<vpRequest, writerVars, analyzerVars, restVars>>

\* the template plan, each transition drawn from self.transitions
TemplatePlanReturned == TemplatePlanDrawn(transitions)

\* an exception escaped the try block, before the generation call or in the
\* template path after it: minimal fallback plan
FallbackPlanReturned ==
    /\ vpResult.path = "pending"
    /\ vpResult' = create_fallback_plan(vpRequest)
    /\ \/ UNCHANGED vpCalls
       \/ \E generated \in BOOLEAN : vpCalls' = generate_with_gpt(vpCalls, generated)
    /\ UNCHANGED <<vpRequest, writerVars, analyzerVars, restVars>>

InitPlanner ==
    /\ vpRequest \in VisualPlanRequests
    /\ vpResult = NoPlan
    /\ vpCalls = <<>>
    /\ WriterIdle
    /\ AnalyzerIdle
    /\ RestIdle

NextPlanner == GptPlanReturned \/ TemplatePlanReturned \/ FallbackPlanReturned

SpecPlanner == InitPlanner /\ [][NextPlanner]_vars

---------------------------------------------------------------------------
(* Properties of the visual plan                                           *)

\* "M:SS-M:SS": the text before and after the dash
TimestampStart(scene) == Split(scene.timestamp, "-")[1]
TimestampEnd(scene) == Split(scene.timestamp, "-")[2]

\* int(text) of a decimal numeral
RECURSIVE ParseNat(_)
ParseNat(text) ==
    IF Len(text) = 0 THEN 0
    ELSE 10 * ParseNat(Prefix(text, Len(text) - 1))
         + (Find("0123456789", Char(text, Len(text)), 1) - 1)

\* seconds denoted by "M:SS"
ParseMSS(text) ==
    60 * ParseNat(Split(text, ":")[1]) + ParseNat(Split(text, ":")[2])

SceneSeconds(scene) ==
    ParseMSS(TimestampEnd(scene)) - ParseMSS(TimestampStart(scene))

HeuristicPlan == vpResult.path \in {"template", "fallback"}

\* number of segments the request's script splits into
SegmentCount == Len(segments_of(vpRequest.script))

LastScene == vpResult.scenes[Len(vpResult.scenes)]

\* C1: the scenes of a template or fallback plan are contiguous: the first
\* starts at 0:00 and each scene starts where the one before it ends.
C1_ScenesContiguous ==
    HeuristicPlan =>
        /\ Len(vpResult.scenes) >= 1
        /\ TimestampStart(vpResult.scenes[1]) = "0:00"
        /\ \A i \in 1..(Len(vpResult.scenes) - 1) :
               TimestampEnd(vpResult.scenes[i]) = TimestampStart(vpResult.scenes[i + 1])

\* a template plan with two content scenes between hook and CTA
C1_Witness ==
    /\ vpResult.path = "template"
    /\ Len(vpResult.scenes) = 4
    /\ vpResult.scenes[3].timestamp = "0:15-0:25"

OneSegment ==
    /\ ~Contains(vpRequest.script, "\n\n")
    /\ ~Contains(vpRequest.script, ". ")

SuppliedCta ==
    IF vpRequest.cta \in {None, ""}
    THEN "Follow for more content like this!"
    ELSE vpRequest.cta

\* C3 as claimed: with at least 3 segments the last scene lasts 5 seconds,
\* has transition "Fade" and holds the last segment of the script.
C3_CtaSceneIsLastSegment ==
    (vpResult.path = "template" /\ SegmentCount >= 3) =>
        /\ SceneSeconds(LastScene) = 5
        /\ LastScene.transition = "Fade"
        /\ LastScene.script_segment = segments_of(vpRequest.script)[SegmentCount]

\* C3 amended: with at least 3 segments the last scene lasts 5 seconds, has
\* transition "Fade" and holds the request's cta when one is supplied and
\* the constant default CTA otherwise.
C3_CtaSceneIsRequestCta ==
    (vpResult.path = "template" /\ SegmentCount >= 3) =>
        /\ SceneSeconds(LastScene) = 5
        /\ LastScene.transition = "Fade"
        /\ LastScene.script_segment = SuppliedCta

C3_Witness ==
    /\ vpResult.path = "template"
    /\ SegmentCount >= 3
    /\ vpRequest.cta = None
    /\ LastScene.script_segment = "Follow for more content like this!"

\* C4: total_duration of a template or fallback plan is the end time of
\* its last scene.
C4_TotalIsLastEnd ==
    HeuristicPlan => vpResult.total_duration = TimestampEnd(LastScene)

C4_Witness ==
    /\ vpResult.path = "template"
    /\ Len(vpResult.scenes) = 4
    /\ vpResult.total_duration = "0:30"


\* create_visual_plan has returned: by the generative plan, by the template
\* plan, or by the except clause of its outer try
PlanReturned == vpResult.path \in {"gpt", "template", "fallback"}

\* C11: create_visual_plan never raises: every way out of the handler is a
\* returned plan, and the plan the outer except clause returns has exactly
\* one scene, 0:00-0:30, holding the whole script, total_duration "0:30", and
\* the fixed footage, platforms and tips.
C11_FallbackPlanIsMinimal ==
    /\ vpResult.path \in {"pending", "gpt", "template", "fallback"}
    /\ vpResult.path = "fallback" =>
        /\ Len(vpResult.scenes) = 1
        /\ vpResult.scenes[1].timestamp = "0:00-0:30"
        /\ vpResult.scenes[1].script_segment = vpRequest.script
        /\ vpResult.scenes[1].stock_footage =
               <<"Person talking to camera", "Relevant B-roll">>
        /\ vpResult.total_duration = "0:30"
        /\ vpResult.stock_footage_platforms = <<"Pexels", "Pixabay">>
        /\ vpResult.editing_tips = <<"Keep it simple", "Focus on clear audio">>

\* the fallback plan of a script of three segments: one scene, not five
C11_Witness ==
    /\ vpResult.path = "fallback"
    /\ Len(segments_of(vpRequest.script)) = 3
    /\ vpResult.scenes[1].script_segment = vpRequest.script
    /\ Len(vpResult.scenes) = 1

---------------------------------------------------------------------------
(* ContentScriptwriterAgent                                                *)

\* Python's str.lower on the letters A-Z
LowerChar(c) ==
    LET i == Find("ABCDEFGHIJKLMNOPQRSTUVWXYZ", c, 1)
    IN  IF i = 0 THEN c ELSE Char("abcdefghijklmnopqrstuvwxyz", i)

\* s.lower()
RECURSIVE Lower(_)
Lower(s) ==
    IF Len(s) = 0 THEN ""
    ELSE Lower(Prefix(s, Len(s) - 1)) \o LowerChar(Char(s, Len(s)))

Range(f) == {f[i] : i \in DOMAIN f}

\* d.get(key, default)
Get(d, key, default) == IF key \in DOMAIN d THEN d[key] ELSE default

\* self.hook_templates
hook_templates ==
    "shock-based" :> <<"You've been [action] wrong this whole time.",
            "This is the biggest mistake people make when [action].",
            "I can't believe I didn't know this [topic] secret sooner.",
            "Stop [action] immediately if you're doing this.">>
    @@ "question-based" :> <<"What if I told you [surprising claim]?",
            "Ever wondered why [intriguing question]?",
            "Do you make this common [topic] mistake?",
            "Want to know the real reason [curious situation]?">>
    @@ "number-based" :> <<"3 [topic] hacks that changed my life.",
            "The #1 reason your [topic] isn't working.",
            "5 seconds that will change how you [action].",
            "These 3 [topic] tips saved me hours every day.">>
    @@ "personal-story" :> <<"I tried [action] for 30 days and here's what happened.",
            "My [topic] routine was completely wrong until I discovered this.",
            "I was shocked when I learned this [topic] secret.",
            "Let me show you how I [action] to get these results.">>

\* self.cta_templates
cta_templates ==
    "tiktok" :> <<"Hit that follow button if you want more [topic] tips like this.",
            "Comment '[phrase]' if you're going to try this.",
            "Stitch this with your results!",
            "Save this for later when you need it!">>
    @@ "youtube_shorts" :> <<"Subscribe for more [topic] hacks that actually work.",
            "Let me know in the comments if this helped you.",
            "Check the link in my bio for the full tutorial.",
            "Hit the bell so you don't miss part 2!">>
    @@ "instagram_reels" :> <<"Save this to your collection for when you need it.",
            "Tag someone who needs to see this [topic] hack.",
            "DM me your before and after if you try this!",
            "Share this with someone who's been struggling with [topic].">>
    @@ "all" :> <<"Follow for more [topic] tips that nobody talks about.",
            "Comment if you're going to try this today.",
            "Like and save this for later!",
            "Let me know your results in the comments!">>

\* the theme bucket _generate_script_body routes on
body_bucket(theme) ==
    LET t == Lower(theme)
    IN  IF Contains(t, "productivity") \/ Contains(t, "habit") \/ Contains(t, "time management")
        THEN "productivity"
        ELSE IF Contains(t, "tech") \/ Contains(t, "phone") THEN "tech"
        ELSE IF Contains(t, "health") \/ Contains(t, "diet") \/ Contains(t, "nutrition")
        THEN "health"
        ELSE "generic"

\* the fixed problem sentence of a bucket (the dash and the arrows of the
\* source that are outside ASCII are written "-" and ">", one character each)
body_problem(bucket) ==
    IF bucket = "productivity" THEN
        "Most people waste hours every day on tasks that don't move the needle. [show frustrated person]"
    ELSE IF bucket = "tech" THEN
        "Your phone battery dying mid-day is not just annoying-it's preventable. [show phone at 1%]"
    ELSE IF bucket = "health" THEN
        "That afternoon energy crash isn't normal, and it's probably because of what you're eating for lunch. [show tired person at desk]"
    ELSE "We all struggle with having too much to do and too little time. [show overwhelmed person]"

\* the fixed solution sentence of a bucket
body_solution(bucket) ==
    IF bucket = "productivity" THEN
        "Instead, try time blocking: [cut to phone calendar] First, identify your top 3 priorities for tomorrow. [show list] Then, schedule specific time blocks for each one. [show calendar] The key is to work in 25-minute focused sessions with 5-minute breaks. [show timer]"
    ELSE IF bucket = "tech" THEN
        "Here's what actually kills your battery: [cut to settings] Background apps constantly refreshing. [show settings menu] Go to Settings > General > Background App Refresh and turn it off for apps you don't need instant updates from. [show toggling off] This one change can give you 2-3 extra hours of battery life. [show battery percentage increasing]"
    ELSE IF bucket = "health" THEN
        "Try this instead: [cut to meal prep] Combine protein, healthy fats, and complex carbs in every meal. [show food items] For example: grilled chicken, avocado, and sweet potato. [show meal] This balanced combo prevents blood sugar spikes and keeps your energy stable all day. [show energetic person working]"
    ELSE "Here's a simple system that changed everything for me: [cut to notebook] The 1-3-5 Rule. Each day, commit to accomplishing: 1 big thing, 3 medium things, and 5 small things. [show list] That's it. This prevents overwhelm while still ensuring progress on what matters. [show completed list]"

\* selected_theme: random.choice(request.content_themes), else the default
select_theme_choices(request) ==
    IF Len(request.content_themes) > 0
    THEN Range(request.content_themes)
    ELSE {"productivity hacks"}

\* _get_action_from_theme: the actions random.choice may return
get_action_from_theme(theme) ==
    LET t == Lower(theme)
    IN  IF Contains(t, "productivity") \/ Contains(t, "habit") \/ Contains(t, "time management")
        THEN {"planning your day", "setting priorities", "managing your time"}
        ELSE IF Contains(t, "tech") \/ Contains(t, "phone")
        THEN {"charging your phone", "using your apps", "backing up your data"}
        ELSE IF Contains(t, "health") \/ Contains(t, "diet") \/ Contains(t, "nutrition")
        THEN {"meal prepping", "counting calories", "planning your diet"}
        ELSE IF Contains(t, "life hack") \/ Contains(t, "problem-solving")
        THEN {"organizing your space", "saving money", "simplifying your life"}
        ELSE {"doing this"}

\* content_theme.split()[0] raises IndexError on a theme without a word
HasFirstWord(theme) == WordStarts(theme) # {}

\* content_theme.split()[0].lower()
topic_of(theme) == Lower(Words(theme)[1])

\* the six template.replace calls of _select_hook
fill_hook_template(template, content_theme, action) ==
    LET topic == topic_of(content_theme)
        h1 == Replace(template, "[topic]", topic)
        h2 == Replace(h1, "[action]", action)
        h3 == Replace(h2, "[surprising claim]",
                      "one simple " \o topic \o " hack could save you hours")
        h4 == Replace(h3, "[intriguing question]",
                      "most people get " \o topic \o " completely wrong")
        h5 == Replace(h4, "[curious situation]",
                      "your " \o topic \o " isn't improving")
    IN  Replace(h5, "[phrase]", "I'll try this")

\* the generic hook returned when no pattern is supplied
generic_hook(content_theme) ==
    "You've been approaching " \o topic_of(content_theme) \o " all wrong."

\* hook_type inferred for a generated hook: the type of the first pattern
\* one of whose example's words occurs in the hook, else "shock-based"
RECURSIVE gpt_hook_type(_, _)
gpt_hook_type(hook_patterns, gpt_hook) ==
    IF Len(hook_patterns) = 0 THEN "shock-based"
    ELSE LET pattern == Head(hook_patterns)
             example == Get(pattern, "example", "")
         IN  IF example # ""
                /\ \E keyword \in Range(Words(Lower(example))) :
                       Contains(Lower(gpt_hook), keyword)
             THEN pattern.type
             ELSE gpt_hook_type(Tail(hook_patterns), gpt_hook)

\* the template branch with problem and solution in one paragraph
script_body_one_paragraph(hook, theme) ==
    hook \o "\n\n" \o body_problem(body_bucket(theme))
         \o " " \o body_solution(body_bucket(theme))

\* the template branch of _generate_script_body
script_body_template(hook, theme) ==
    hook \o "\n\n" \o body_problem(body_bucket(theme))
         \o "\n\n" \o body_solution(body_bucket(theme))

\* the two template.replace calls of _select_cta
fill_cta_template(template, theme) ==
    Replace(Replace(template, "[topic]", topic_of(theme)), "[phrase]", "I'll try this")

\* title = hook, cut to 57 characters + "..." when longer than 60
script_title(hook) == IF Len(hook) > 60 THEN Prefix(hook, 57) \o "..." ELSE hook

\* max(min(int(word_count / 2.5), 60), 15)
estimated_duration(full_script) ==
    Max(Min((2 * WordCount(full_script)) \div 5, 60), 15)

\* the platform-specific note, when the platform has one
platform_notes(platform) ==
    IF Lower(platform) = "tiktok"
    THEN <<"Optimize for mobile vertical format (9:16)">>
    ELSE IF Lower(platform) = "youtube_shorts"
    THEN <<"Include subscribe reminder overlay in final seconds">>
    ELSE IF Lower(platform) = "instagram_reels"
    THEN <<"Consider adding trending sound/music for additional reach">>
    ELSE <<>>

\* the theme generate_script hands to _select_hook
hook_theme_argument(request, theme) == theme

\* the theme generate_script hands to _generate_script_body
body_theme_argument(request, theme) == theme

\* what _select_cta is handed when the theme is drawn again for it
cta_theme_drawn_again(request, theme) ==
    IF Len(request.content_themes) > 0
    THEN request.content_themes[1]
    ELSE "productivity hacks"

\* the theme generate_script hands to _select_cta
cta_theme_argument(request, theme) == theme

\* the ScriptResponse generate_script builds from its locals
script_response(request, theme, selection, body, cta_text) ==
    LET full_script == body \o "\n\n" \o cta_text
        duration == estimated_duration(full_script)
    IN  [title              |-> script_title(selection.hook),
         script             |-> full_script,
         hook_type          |-> selection.type,
         estimated_duration |-> duration,
         theme              |-> theme,
         cta                |-> cta_text,
         notes              |-> <<"Estimated duration: " \o Str(duration) \o " seconds",
                                  "Hook type: " \o selection.type,
                                  "Primary theme: " \o theme,
                                  "Target platform: " \o request.platform>>
                                \o platform_notes(request.platform)]

\* "if gpt_x:": the generation call returned text that is not empty
Truthy(reply) == reply # None /\ reply # ""

\* h['type'] raises KeyError on a pattern without that key
LacksType(hook_patterns) ==
    \E i \in DOMAIN hook_patterns : "type" \notin DOMAIN hook_patterns[i]

\* _select_hook reporting the type of the template table it drew from
select_hook_reports_table_type(hook_patterns, content_theme, gpt_hook) ==
    IF LacksType(hook_patterns)
    THEN {[raised |-> "KeyError", type |-> "", hook |-> ""]}
    ELSE IF Truthy(gpt_hook)
    THEN {[raised |-> None, type |-> gpt_hook_type(hook_patterns, gpt_hook),
           hook |-> gpt_hook]}
    ELSE IF ~HasFirstWord(content_theme)
    THEN {[raised |-> "IndexError", type |-> "", hook |-> ""]}
    ELSE IF Len(hook_patterns) > 0
    THEN UNION {
           {[raised |-> None,
             type |-> IF pattern.type \in DOMAIN hook_templates
                      THEN pattern.type ELSE "shock-based",
             hook |-> fill_hook_template(template, content_theme, action)] :
                template \in Range(Get(hook_templates, pattern.type,
                                       hook_templates["shock-based"])),
                action \in get_action_from_theme(content_theme)} :
           pattern \in Range(hook_patterns)}
    ELSE {[raised |-> None, type |-> "shock-based",
           hook |-> generic_hook(content_theme)]}

\* _select_hook: the results it can return, or the exception it raises,
\* given the reply of its generation call
select_hook(hook_patterns, content_theme, gpt_hook) ==
    IF LacksType(hook_patterns)
    THEN {[raised |-> "KeyError", type |-> "", hook |-> ""]}
    ELSE IF Truthy(gpt_hook)
    THEN {[raised |-> None, type |-> gpt_hook_type(hook_patterns, gpt_hook),
           hook |-> gpt_hook]}
    ELSE IF ~HasFirstWord(content_theme)
    THEN {[raised |-> "IndexError", type |-> "", hook |-> ""]}
    ELSE IF Len(hook_patterns) > 0
    THEN UNION {
           {[raised |-> None, type |-> pattern.type,
             hook |-> fill_hook_template(template, content_theme, action)] :
                template \in Range(Get(hook_templates, pattern.type,
                                       hook_templates["shock-based"])),
                action \in get_action_from_theme(content_theme)} :
           pattern \in Range(hook_patterns)}
    ELSE {[raised |-> None, type |-> "shock-based",
           hook |-> generic_hook(content_theme)]}

\* _generate_script_body, given the reply of its generation call
generate_script_body(hook, theme, gpt_body) ==
    IF Truthy(gpt_body)
    THEN hook \o "\n\n" \o gpt_body
    ELSE script_body_template(hook, theme)

\* _select_cta: the results it can return, or the exception it raises,
\* given the reply of its generation call
select_cta(platform, theme, gpt_cta) ==
    IF Truthy(gpt_cta)
    THEN {[raised |-> None, cta |-> gpt_cta]}
    ELSE IF ~HasFirstWord(theme)
    THEN {[raised |-> "IndexError", cta |-> ""]}
    ELSE {[raised |-> None, cta |-> fill_cta_template(template, theme)] :
             template \in Range(Get(cta_templates, Lower(platform),
                                    cta_templates["all"]))}

---------------------------------------------------------------------------
(* Inputs of the scriptwriter                                              *)

\* most themes a request's content_themes holds
MaxThemes == 2

\* the themes requests draw their content_themes from, as runs of this list
ThemeList ==
    <<"Time management hacks", "", "Technology tips and gadget hacks",
      "Health, nutrition, and wellness advice">>

ThemeLists ==
    {SubSeq(ThemeList, run[1], run[2]) :
        run \in {r \in (1..Len(ThemeList)) \X (0..Len(ThemeList)) :
                    r[2] >= r[1] - 1 /\ r[2] - r[1] + 1 <= MaxThemes}}

HookPatternLists ==
    {<<>>,
     <<[type |-> "question-based", example |-> "Did you know this simple trick?"],
       [type |-> "number-based", example |-> "5 habits that changed my life"]>>,
     <<[type |-> "curiosity-gap"]>>,
     <<[example |-> "Stop doing this"]>>}

\* format_trends and engagement_tactics: both empty, or as the analyzer
\* returns them
TrendsAndTactics ==
    {[format_trends |-> <<>>, engagement_tactics |-> <<>>],
     [format_trends |-> <<"Fast-paced editing with 3-5 second clips">>,
      engagement_tactics |-> <<"Open loops to maintain viewer interest">>]}

Platforms == {"all", "TikTok", "linkedin"}

ScriptRequests ==
    {[hook_patterns      |-> hook_patterns,
      format_trends      |-> lists.format_trends,
      engagement_tactics |-> lists.engagement_tactics,
      content_themes     |-> content_themes,
      platform           |-> platform] :
        hook_patterns \in HookPatternLists, lists \in TrendsAndTactics,
        content_themes \in ThemeLists, platform \in Platforms}

\* what _generate_with_gpt returns: None on any failure, else the stripped
\* text of the reply, which may be empty
GptReplies(text) == {None, "", text}

GptHookText == "Did you know your phone is lying to you?"

GptBodyText == "Most batteries die early. [show phone] Charge to 80 percent."

GptCtaText == "Follow for daily tips!"

---------------------------------------------------------------------------
(* generate_script: one action per statement that calls out                *)

\* selected_theme = random.choice(request.content_themes) if ... else default
SelectTheme ==
    /\ swPc = "select_theme"
    /\ selected_theme' \in select_theme_choices(swRequest)
    /\ swPc' = "select_hook"
    /\ UNCHANGED <<swRequest, hook_selection, script_body, swCalls, swRaised,
                   swResponse, plannerVars, analyzerVars, restVars>>

\* hook_selection = self._select_hook(request.hook_patterns, selected_theme)
SelectHook ==
    /\ swPc = "select_hook"
    /\ \E gpt_hook \in GptReplies(GptHookText) :
       \E result \in select_hook(swRequest.hook_patterns,
                                 hook_theme_argument(swRequest, selected_theme),
                                 gpt_hook) :
          /\ swCalls' =
                IF result.raised = "KeyError" THEN swCalls
                ELSE Append(swCalls,
                            [step |-> "_select_hook",
                             theme |-> hook_theme_argument(swRequest, selected_theme),
                             generated |-> Truthy(gpt_hook)])
          /\ IF result.raised # None
             THEN /\ swRaised' = result.raised
                  /\ swPc' = "raised"
                  /\ UNCHANGED hook_selection
             ELSE /\ hook_selection' = [type |-> result.type, hook |-> result.hook]
                  /\ swPc' = "generate_script_body"
                  /\ UNCHANGED swRaised
    /\ UNCHANGED <<swRequest, selected_theme, script_body, swResponse, plannerVars,
                   analyzerVars, restVars>>

\* script_body = self._generate_script_body(hook, selected_theme, format_trends)
GenerateScriptBody ==
    /\ swPc = "generate_script_body"
    /\ \E gpt_body \in GptReplies(GptBodyText) :
          /\ script_body' =
                generate_script_body(hook_selection.hook,
                                     body_theme_argument(swRequest, selected_theme),
                                     gpt_body)
          /\ swCalls' =
                Append(swCalls,
                       [step |-> "_generate_script_body",
                        theme |-> body_theme_argument(swRequest, selected_theme),
                        generated |-> Truthy(gpt_body)])
    /\ swPc' = "select_cta"
    /\ UNCHANGED <<swRequest, selected_theme, hook_selection, swRaised, swResponse,
                   plannerVars, analyzerVars, restVars>>

\* cta = self._select_cta(...), and the rest of generate_script, which calls
\* nothing that can fail
SelectCtaAndReturn ==
    /\ swPc = "select_cta"
    /\ \E gpt_cta \in GptReplies(GptCtaText) :
       \E result \in select_cta(swRequest.platform,
                                cta_theme_argument(swRequest, selected_theme),
                                gpt_cta) :
          /\ swCalls' =
                Append(swCalls,
                       [step |-> "_select_cta",
                        theme |-> cta_theme_argument(swRequest, selected_theme),
                        generated |-> Truthy(gpt_cta)])
          /\ IF result.raised # None
             THEN /\ swRaised' = result.raised
                  /\ swPc' = "raised"
                  /\ UNCHANGED swResponse
             ELSE /\ swResponse' =
                        script_response(swRequest, selected_theme, hook_selection,
                                        script_body, result.cta)
                  /\ swPc' = "returned"
                  /\ UNCHANGED swRaised
    /\ UNCHANGED <<swRequest, selected_theme, hook_selection, script_body,
                   plannerVars, analyzerVars, restVars>>

InitWriter ==
    /\ swRequest \in ScriptRequests
    /\ swPc = "select_theme"
    /\ selected_theme = None
    /\ hook_selection = NoHook
    /\ script_body = None
    /\ swCalls = <<>>
    /\ swRaised = None
    /\ swResponse = NoScript
    /\ PlannerIdle
    /\ AnalyzerIdle
    /\ RestIdle

NextWriter == SelectTheme \/ SelectHook \/ GenerateScriptBody \/ SelectCtaAndReturn

SpecWriter == InitWriter /\ [][NextWriter]_vars

---------------------------------------------------------------------------
(* Properties of the script                                                *)

\* every generation call made so far failed or returned no text
HeuristicPath == \A i \in DOMAIN swCalls : ~swCalls[i].generated

\* the request's lists are what the analyzer emits: every pattern has a type
TypedPatterns == ~LacksType(swRequest.hook_patterns)

\* C5: on the heuristic path generate_script does not raise, whatever the
\* lists and theme strings of the request (here even only for requests whose
\* patterns all carry a type), and the response it returns has an
\* estimated_duration between 15 and 60 and a title of at most 60 characters.
C5_HeuristicScriptReturns ==
    (HeuristicPath /\ TypedPatterns) =>
        /\ swPc # "raised"
        /\ swPc = "returned" =>
              /\ swResponse.estimated_duration \in 15..60
              /\ Len(swResponse.title) <= 60

\* C6: on the heuristic path each empty list degrades to its default without
\* failing: no content_themes selects "productivity hacks"; no hook_patterns
\* gives the generic hook on the theme's first word, typed "shock-based"; no
\* format_trends or no engagement_tactics still gives hook, body and CTA.
C6_EmptyListsDegrade ==
    (HeuristicPath /\ TypedPatterns) =>
        /\ (Len(swRequest.content_themes) = 0 /\ swPc # "select_theme") =>
              selected_theme = "productivity hacks"
        /\ Len(swRequest.hook_patterns) = 0 =>
              /\ swPc # "raised"
              /\ swPc \in {"generate_script_body", "select_cta", "returned"} =>
                    /\ hook_selection.type = "shock-based"
                    /\ hook_selection.hook =
                          "You've been approaching "
                             \o Lower(Words(selected_theme)[1]) \o " all wrong."
        /\ (Len(swRequest.format_trends) = 0
               \/ Len(swRequest.engagement_tactics) = 0) =>
              /\ swPc # "raised"
              /\ swPc = "returned" =>
                    /\ swResponse.cta # ""
                    /\ Len(script_body) > Len(hook_selection.hook)
                    /\ swResponse.script = script_body \o "\n\n" \o swResponse.cta

\* what C7 says of one state of a request
ThemeHeldConstant ==
    /\ swPc \notin {"idle", "select_theme"} =>
          IF Len(swRequest.content_themes) > 0
          THEN \E i \in DOMAIN swRequest.content_themes :
                  selected_theme = swRequest.content_themes[i]
          ELSE selected_theme = "productivity hacks"
    /\ \A i \in DOMAIN swCalls : swCalls[i].theme = selected_theme
    /\ swPc = "returned" =>
          /\ [i \in DOMAIN swCalls |-> swCalls[i].step] =
                <<"_select_hook", "_generate_script_body", "_select_cta">>
          /\ swResponse.theme = selected_theme
          /\ swResponse.notes[3] = "Primary theme: " \o selected_theme

\* C7: within one request the theme is selected once, it is an element of
\* content_themes or the default theme, the same value is handed to hook,
\* body and CTA generation, and it is the response's theme and the theme of
\* its "Primary theme" note.
C7_ThemeSelectedOnce ==
    /\ []ThemeHeldConstant
    /\ [][swPc # "select_theme" => selected_theme' = selected_theme]_vars

\* a response on the second of two different themes, all three steps done
C7_Witness ==
    /\ swPc = "returned"
    /\ Len(swRequest.content_themes) = 2
    /\ selected_theme = swRequest.content_themes[2]
    /\ selected_theme # swRequest.content_themes[1]
    /\ Len(swCalls) = 3
    /\ swResponse.theme = swRequest.content_themes[2]

\* a response whose hook comes from the templates: the generation call of
\* _select_hook, the first call of the request, failed or returned no text
TemplateHookReturned ==
    /\ swPc = "returned"
    /\ ~swCalls[1].generated

\* the hooks the shock-based templates give on a theme
shock_based_hooks(content_theme) ==
    {fill_hook_template(template, content_theme, action) :
        template \in Range(hook_templates["shock-based"]),
        action \in get_action_from_theme(content_theme)}

\* C28: when the hook comes from the templates, the response's hook_type is
\* the type of one of the request's hook patterns, or "shock-based" when the
\* request has no pattern; when that type has no entry in the template
\* table, the hook (and so the title) is one a shock-based template gives,
\* while hook_type and the "Hook type" note still name the selected type.
C28_HookTypeIsSelectedType ==
    TemplateHookReturned =>
        /\ IF Len(swRequest.hook_patterns) = 0
           THEN swResponse.hook_type = "shock-based"
           ELSE \E i \in DOMAIN swRequest.hook_patterns :
                   swResponse.hook_type = swRequest.hook_patterns[i].type
        /\ swResponse.notes[2] = "Hook type: " \o swResponse.hook_type
        /\ swResponse.hook_type \notin DOMAIN hook_templates =>
              /\ hook_selection.hook \in shock_based_hooks(selected_theme)
              /\ swResponse.title = script_title(hook_selection.hook)

\* a response of type "curiosity-gap", which the template table does not
\* hold, whose hook is the fourth shock-based template filled in
C28_Witness ==
    /\ TemplateHookReturned
    /\ swResponse.hook_type = "curiosity-gap"
    /\ swResponse.title = "Stop planning your day immediately if you're doing this."


---------------------------------------------------------------------------
(* ContentStrategyAgent: the heuristic analyses                            *)

\* "x and ...": a description that is neither None nor empty
HasText(s) == s # None /\ s # ""

\* any(word in s for word in words)
ContainsAny(s, words) == \E word \in words : Contains(s, word)

\* videos with a title ending in "?" or a "?" in the description's first clause
is_question_hook(v) ==
    \/ (Len(v.title) > 0 /\ Char(v.title, Len(v.title)) = "?")
    \/ (HasText(v.description) /\ Contains(Split(v.description, ".")[1], "?"))

\* videos whose lower-cased title contains a shock word
is_shock_hook(v) ==
    ContainsAny(Lower(v.title), {"wrong", "mistake", "shocking", "never", "secret"})

\* any(str(i) in v.title for i in range(1, 11))
is_number_hook(v) == \E i \in 1..10 : Contains(v.title, Str(i))

\* is_story_hook looking at the title only
is_story_hook_title_only(v) == "I" \in Range(Words(v.title))

\* "I" is a word of the title or one of the description's first five words
is_story_hook(v) ==
    \/ "I" \in Range(Words(v.title))
    \/ (HasText(v.description) /\
        LET words == Words(v.description)
        IN  \E k \in 1..Min(5, Len(words)) : words[k] = "I")

\* hook_pattern with the title of the last match as the example
hook_pattern_last_match(type, matches) ==
    IF Len(matches) > 0
    THEN <<[type |-> type, example |-> matches[Len(matches)].title]>>
    ELSE <<>>

\* the pattern appended for a class: none, or the title of the first match
hook_pattern(type, matches) ==
    IF Len(matches) > 0
    THEN <<[type |-> type, example |-> matches[1].title]>>
    ELSE <<>>

\* _analyze_hooks
analyze_hooks(videos) ==
    hook_pattern("question-based", SelectSeq(videos, is_question_hook))
    \o hook_pattern("shock-based", SelectSeq(videos, is_shock_hook))
    \o hook_pattern("number-based", SelectSeq(videos, is_number_hook))
    \o hook_pattern("personal-story", SelectSeq(videos, is_story_hook))

\* the entry appended when a check matched
AppendedIf(matched, entry) == IF matched THEN <<entry>> ELSE <<>>

\* any(c.isdigit() for c in s)
HasDigit(s) == \E i \in 1..Len(s) : Contains("0123456789", Char(s, i))

\* both words in the title, or both in the description
is_transformation(v) ==
    \/ (Contains(Lower(v.title), "before") /\ Contains(Lower(v.title), "after"))
    \/ (HasText(v.description) /\ Contains(Lower(v.description), "before")
                               /\ Contains(Lower(v.description), "after"))

\* word in the lower-cased title, or in the lower-cased description
Mentions(v, words) ==
    \/ ContainsAny(Lower(v.title), words)
    \/ (HasText(v.description) /\ ContainsAny(Lower(v.description), words))

\* _analyze_format: the entries of its three checks
analyze_format_matches_only(videos) ==
    AppendedIf(\E i \in DOMAIN videos : HasDigit(videos[i].title),
               "List-based format (e.g., '5 tips', '3 mistakes')")
    \o AppendedIf(\E i \in DOMAIN videos : Mentions(videos[i], {"how to"}),
                  "Tutorial/How-to format with step-by-step instructions")
    \o AppendedIf(\E i \in DOMAIN videos : is_transformation(videos[i]),
                  "Before/After transformation format")

\* _analyze_format as it would be if it returned before line 362
analyze_format_no_constants(videos) == analyze_format_matches_only(videos)

\* _analyze_format (the arrows of the source's first constant entry are
\* written ">", one character each)
analyze_format(videos) ==
    analyze_format_matches_only(videos)
    \o <<"Hook (0-3s) > Problem/Pain Point (3-8s) > Solution/Value (8-20s) > CTA (last 5s)",
         "Fast-paced editing with text overlays and background music">>

\* the two checks, with the question looked for in the titles only
analyze_engagement_titles_only(videos) ==
    AppendedIf(\E i \in DOMAIN videos : Contains(videos[i].title, "?"),
               "Direct questions to viewers to encourage comments")
    \o AppendedIf(\E i \in DOMAIN videos :
                      /\ HasText(videos[i].description)
                      /\ ContainsAny(Lower(videos[i].description),
                            {"follow", "subscribe", "like", "comment", "share"}),
                  "Explicit calls-to-action (follow, like, comment)")

\* _analyze_engagement: the entries of its two checks
analyze_engagement_matches_only(videos) ==
    AppendedIf(\E i \in DOMAIN videos :
                   \/ Contains(videos[i].title, "?")
                   \/ (HasText(videos[i].description)
                          /\ Contains(videos[i].description, "?")),
               "Direct questions to viewers to encourage comments")
    \o AppendedIf(\E i \in DOMAIN videos :
                      /\ HasText(videos[i].description)
                      /\ ContainsAny(Lower(videos[i].description),
                            {"follow", "subscribe", "like", "comment", "share"}),
                  "Explicit calls-to-action (follow, like, comment)")

\* _analyze_engagement as it would be if it returned before line 383
analyze_engagement_no_constants(videos) == analyze_engagement_matches_only(videos)

\* _analyze_engagement
analyze_engagement(videos) ==
    analyze_engagement_matches_only(videos)
    \o <<"Open loops (creating curiosity gaps that keep viewers watching)",
         "Relatable scenarios that prompt viewers to tag friends",
         "Controversial or counterintuitive statements to drive discussion">>

\* _analyze_themes
analyze_themes(videos) ==
    AppendedIf(\E i \in DOMAIN videos : Mentions(videos[i], {"habit", "productivity"}),
               "Personal productivity and habit formation")
    \o AppendedIf(\E i \in DOMAIN videos : Mentions(videos[i], {"tech", "phone"}),
                  "Technology tips and gadget hacks")
    \o AppendedIf(\E i \in DOMAIN videos : Mentions(videos[i], {"health", "diet"}),
                  "Health, nutrition, and wellness advice")
    \o <<"Life hacks and everyday problem-solving",
         "Behind-the-scenes or 'day in the life' content">>

\* sum(v.views for v in videos)
RECURSIVE SumViews(_)
SumViews(videos) ==
    IF Len(videos) = 0 THEN 0 ELSE Head(videos).views + SumViews(Tail(videos))

\* how ".0f" rounds total / count: to the nearest integer, a tie to the even one
RoundHalfEven(total, count) ==
    LET q == total \div count
        r == total % count
    IN  IF 2 * r < count THEN q
        ELSE IF 2 * r > count THEN q + 1
        ELSE IF q % 2 = 0 THEN q ELSE q + 1

\* how "," groups the digits of n >= 0 in threes
RECURSIVE Thousands(_)
Thousands(n) ==
    IF n < 1000 THEN Str(n)
    ELSE Thousands(n \div 1000) \o ","
         \o Str((n % 1000) \div 100) \o Str((n % 100) \div 10) \o Str(n % 10)

\* f"{avg_views:,.0f}" with avg_views = sum / len if videos else 0
avg_views_text(videos) ==
    IF Len(videos) > 0
    THEN Thousands(RoundHalfEven(SumViews(videos), Len(videos)))
    ELSE "0"

\* the hook clause's list of types: "a, b and c", or the only type
hook_types_text(hook_types) ==
    IF Len(hook_types) = 1 THEN hook_types[1]
    ELSE Join(SubSeq(hook_types, 1, Len(hook_types) - 1), ", ")
         \o " and " \o hook_types[Len(hook_types)]

\* _generate_summary; an argument that is None or empty adds no clause
generate_summary(videos, hooks, trends, tactics, themes) ==
    "The analyzed videos (averaging " \o avg_views_text(videos)
        \o " views) typically use "
    \o (IF Len(hooks) > 0
        THEN hook_types_text([i \in DOMAIN hooks |-> hooks[i].type]) \o " hooks, "
        ELSE "")
    \o (IF Len(trends) > 0
        THEN "with a structure that typically follows " \o Lower(trends[1]) \o ". "
        ELSE "")
    \o (IF Len(tactics) > 0
        THEN "Successful videos employ " \o Lower(tactics[1]) \o " and "
             \o (IF Len(tactics) > 1 THEN Lower(tactics[2]) ELSE "")
             \o " to drive viewer interaction. "
        ELSE "")
    \o (IF Len(themes) > 0
        THEN "The most popular content focuses on " \o Lower(themes[1])
             \o (IF Len(themes) > 1 THEN " and " \o Lower(themes[2]) \o "." ELSE ".")
        ELSE "")

---------------------------------------------------------------------------
(* Inputs of the analyzer                                                  *)

\* most videos a request holds
MaxVideos == 2

\* the videos requests are built from, as runs of this list
VideoList ==
    <<[title       |-> "5 Morning Habits That Changed My Life",
       description |-> "I tried these 5 morning habits for 30 days and here's what happened...",
       views       |-> 1500000],
      [title       |-> "You've Been Charging Your Phone Wrong",
       description |-> "This simple trick will make your battery last twice as long!",
       views       |-> 2300000],
      [title       |-> "How to fix your diet and phone habits before and after work?",
       description |-> None,
       views       |-> 7],
      [title       |-> "Best of 2023",
       description |-> "Was it worth it? Follow and share.",
       views       |-> 950000],
      [title       |-> "Why 0 excuses? Start now",
       description |-> None,
       views       |-> 40]>>

\* the videos of a list in the opposite order
Reversed(videos) == [i \in 1..Len(videos) |-> videos[Len(videos) + 1 - i]]

\* the runs of at most MaxVideos videos, in the list's order and reversed
VideoLists ==
    LET runs == {SubSeq(VideoList, run[1], run[2]) :
                    run \in {r \in (1..Len(VideoList)) \X (0..Len(VideoList)) :
                                r[2] >= r[1] - 1 /\ r[2] - r[1] + 1 <= MaxVideos}}
    IN  runs \cup {Reversed(videos) : videos \in runs}

AnalysisTypes == {"full", "all", "hooks", "format", "engagement", "themes", "quick"}

\* what _generate_with_gpt returns to a category analysis: None, no text,
\* text that is no JSON, JSON null, a JSON list of numbers, or the list asked for
AnalysisReplies(category) ==
    {None, "", "Here are the patterns I found:", "null", "[1, 2]",
     IF category = "hook_patterns"
     THEN "[{\"type\": \"curiosity-gap\", \"example\": \"Wait for it\"}]"
     ELSE IF category = "format_trends" THEN "[\"Jump cuts every 2 seconds\"]"
     ELSE IF category = "engagement_tactics" THEN "[\"Pinned comment with a question\"]"
     ELSE "[\"Money-saving tips\"]"}

GptSummaryText == "Lead with a number and cut fast."

---------------------------------------------------------------------------
(* ContentStrategyAgent: analyze_videos and the generation calls           *)

\* json.loads on the replies the generation service is taken to give: the
\* value's kind, the type of its elements and the elements
json_loads(text) ==
    Get("null" :> [kind |-> "null", of |-> "", items |-> <<>>]
        @@ "[1, 2]" :> [kind |-> "list", of |-> "int", items |-> <<1, 2>>]
        @@ "[{\"type\": \"curiosity-gap\", \"example\": \"Wait for it\"}]" :>
              [kind |-> "list", of |-> "dict",
               items |-> <<[type |-> "curiosity-gap", example |-> "Wait for it"]>>]
        @@ "[\"Jump cuts every 2 seconds\"]" :>
              [kind |-> "list", of |-> "str", items |-> <<"Jump cuts every 2 seconds">>]
        @@ "[\"Pinned comment with a question\"]" :>
              [kind |-> "list", of |-> "str",
               items |-> <<"Pinned comment with a question">>]
        @@ "[\"Money-saving tips\"]" :>
              [kind |-> "list", of |-> "str", items |-> <<"Money-saving tips">>],
        text,
        [kind |-> "error", of |-> "", items |-> <<>>])

\* the value a local of analyze_videos holds, and where it came from
Local(source, value) ==
    [source |-> source, kind |-> value.kind, of |-> value.of, items |-> value.items]

\* the type of the elements a category's list is to hold
element_type(category) == IF category = "hook_patterns" THEN "dict" ELSE "str"

\* what the heuristic analysis of a category returns: a list
HeuristicLocal(category, items) ==
    [source |-> "heuristic", kind |-> "list", of |-> element_type(category),
     items |-> items]

\* _analyze_<category>_with_gpt: whatever json.loads makes of a reply that
\* is not empty, else (no reply, or json.loads raised) the heuristic analysis
analyze_with_gpt(category, reply, heuristic) ==
    IF Truthy(reply) /\ json_loads(reply).kind # "error"
    THEN Local("gpt", json_loads(reply))
    ELSE HeuristicLocal(category, heuristic)

\* the heuristic analysis of a category
analyze(category, videos) ==
    IF category = "hook_patterns" THEN analyze_hooks(videos)
    ELSE IF category = "format_trends" THEN analyze_format(videos)
    ELSE IF category = "engagement_tactics" THEN analyze_engagement(videos)
    ELSE analyze_themes(videos)

\* the categories analyze_videos runs for an analysis_type, in order
categories_of(analysis_type) ==
    IF analysis_type \in {"full", "all"}
    THEN <<"hook_patterns", "format_trends", "engagement_tactics", "content_themes">>
    ELSE IF analysis_type = "hooks" THEN <<"hook_patterns">>
    ELSE IF analysis_type = "format" THEN <<"format_trends">>
    ELSE IF analysis_type = "engagement" THEN <<"engagement_tactics">>
    ELSE IF analysis_type = "themes" THEN <<"content_themes">>
    ELSE <<>>

\* _generate_summary_with_gpt raises TypeError before its generation call:
\* h['type'] on an element that is no dict, or ', '.join over elements that
\* are no str
summary_prompt_raises(locals) ==
    \E category \in DOMAIN locals :
       /\ Len(locals[category].items) > 0
       /\ locals[category].of # element_type(category)

\* the except block: all four heuristic analyses and the heuristic summary
fallback_result(videos) ==
    [path               |-> "except",
     hook_patterns      |-> HeuristicLocal("hook_patterns", analyze_hooks(videos)),
     format_trends      |-> HeuristicLocal("format_trends", analyze_format(videos)),
     engagement_tactics |-> HeuristicLocal("engagement_tactics", analyze_engagement(videos)),
     content_themes     |-> HeuristicLocal("content_themes", analyze_themes(videos)),
     summary            |-> generate_summary(videos, analyze_hooks(videos),
                                analyze_format(videos), analyze_engagement(videos),
                                analyze_themes(videos))]

\* the heuristic analyses of each request's videos, computed once
analyses ==
    [videos \in VideoLists |->
        [category \in {"hook_patterns", "format_trends", "engagement_tactics",
                       "content_themes"} |-> analyze(category, videos)]]

\* the except block's result for each request's videos, computed once
fallback_results == [videos \in VideoLists |-> fallback_result(videos)]

\* ContentAnalysisResult(...) of the try block as it would be if the model
\* class took any value for its fields
construct_result_unvalidated(locals, summary, videos) ==
    [path               |-> "try",
     hook_patterns      |-> locals.hook_patterns,
     format_trends      |-> locals.format_trends,
     engagement_tactics |-> locals.engagement_tactics,
     content_themes     |-> locals.content_themes,
     summary            |-> summary]

\* construct_result with the except block keeping the summary of the try
\* block
construct_result_keeps_summary(locals, summary, videos) ==
    IF \E category \in DOMAIN locals : locals[category].kind = "null"
    THEN [fallback_results[videos] EXCEPT !.summary = summary]
    ELSE construct_result_unvalidated(locals, summary, videos)

\* ContentAnalysisResult(...) of the try block: a field that is None fails
\* validation, and the except block returns the fallback result
construct_result(locals, summary, videos) ==
    IF \E category \in DOMAIN locals : locals[category].kind = "null"
    THEN fallback_results[videos]
    ELSE [path               |-> "try",
          hook_patterns      |-> locals.hook_patterns,
          format_trends      |-> locals.format_trends,
          engagement_tactics |-> locals.engagement_tactics,
          content_themes     |-> locals.content_themes,
          summary            |-> summary]

\* _generate_summary_with_gpt, given the reply of its generation call
generate_summary_with_gpt(videos, locals, reply) ==
    IF Truthy(reply) THEN reply
    ELSE generate_summary(videos, locals.hook_patterns.items,
                          locals.format_trends.items,
                          locals.engagement_tactics.items,
                          locals.content_themes.items)

---------------------------------------------------------------------------
(* analyze_videos: one action per await                                    *)

\* the next category analysis of the try block, its generation call included
AnalyzeCategory ==
    /\ azPc = "analyze"
    /\ Len(azCalls) < Len(categories_of(azRequest.analysis_type))
    /\ LET category == categories_of(azRequest.analysis_type)[Len(azCalls) + 1]
       IN  \E reply \in AnalysisReplies(category) :
              /\ azLocals' =
                    [azLocals EXCEPT ![category] =
                        analyze_with_gpt(category, reply,
                                         analyses[azRequest.videos][category])]
              /\ azCalls' = Append(azCalls, category)
    /\ UNCHANGED <<azRequest, azPc, azResult, plannerVars, writerVars, restVars>>

\* the summary and the return, through the except block if anything raises
SummarizeAndReturn ==
    /\ azPc = "analyze"
    /\ Len(azCalls) = Len(categories_of(azRequest.analysis_type))
    /\ IF summary_prompt_raises(azLocals)
       THEN /\ azResult' = fallback_results[azRequest.videos]
            /\ UNCHANGED azCalls
       ELSE \E reply \in GptReplies(GptSummaryText) :
              /\ azResult' =
                    construct_result(
                        azLocals,
                        generate_summary_with_gpt(azRequest.videos, azLocals, reply),
                        azRequest.videos)
              /\ azCalls' = Append(azCalls, "summary")
    /\ azPc' = "returned"
    /\ UNCHANGED <<azRequest, azLocals, plannerVars, writerVars, restVars>>

InitAnalyzer ==
    /\ azRequest \in [videos : VideoLists, analysis_type : AnalysisTypes]
    /\ azPc = "analyze"
    /\ azLocals = NoLocals
    /\ azCalls = <<>>
    /\ azResult = NoAnalysis
    /\ PlannerIdle
    /\ WriterIdle
    /\ RestIdle

NextAnalyzer == AnalyzeCategory \/ SummarizeAndReturn

SpecAnalyzer == InitAnalyzer /\ [][NextAnalyzer]_vars

---------------------------------------------------------------------------
(* Properties of the analysis                                              *)

\* analyze_videos has returned, every category analysed heuristically and
\* the summary composed by _generate_summary
HeuristicAnalysisReturned ==
    /\ azPc = "returned"
    /\ \A category \in DOMAIN azLocals : azResult[category].source = "heuristic"
    /\ azResult.summary # GptSummaryText

\* C8: for an empty video list the heuristic path returns four empty
\* sequences and a summary that holds the average-views clause, with the
\* value 0, and no other clause.
C8_EmptyVideosEmptyResult ==
    (HeuristicAnalysisReturned /\ Len(azRequest.videos) = 0) =>
        /\ \A category \in DOMAIN azLocals : azResult[category].items = <<>>
        /\ azResult.summary = "The analyzed videos (averaging 0 views) typically use "

\* C8 as the code has it: for an empty video list the heuristic path returns
\* no hook pattern but the 2 constant format trends, the 3 constant
\* engagement tactics and the 2 constant themes, and the summary holds the
\* average-views clause with the value 0, no hook clause, and the format,
\* engagement and theme clauses built from those constants.
C8_EmptyVideosConstantsOnly ==
    (HeuristicAnalysisReturned /\ Len(azRequest.videos) = 0) =>
        /\ azResult.hook_patterns.items = <<>>
        /\ azResult.format_trends.items =
              <<"Hook (0-3s) > Problem/Pain Point (3-8s) > Solution/Value (8-20s) > CTA (last 5s)",
                "Fast-paced editing with text overlays and background music">>
        /\ azResult.engagement_tactics.items =
              <<"Open loops (creating curiosity gaps that keep viewers watching)",
                "Relatable scenarios that prompt viewers to tag friends",
                "Controversial or counterintuitive statements to drive discussion">>
        /\ azResult.content_themes.items =
              <<"Life hacks and everyday problem-solving",
                "Behind-the-scenes or 'day in the life' content">>
        /\ azResult.summary =
              "The analyzed videos (averaging 0 views) typically use "
              \o "with a structure that typically follows hook (0-3s) > "
              \o "problem/pain point (3-8s) > solution/value (8-20s) > cta (last 5s). "
              \o "Successful videos employ open loops (creating curiosity gaps "
              \o "that keep viewers watching) and relatable scenarios that prompt "
              \o "viewers to tag friends to drive viewer interaction. "
              \o "The most popular content focuses on life hacks and everyday "
              \o "problem-solving and behind-the-scenes or 'day in the life' content."

\* the empty list analysed with every generation call failing
C8_Witness ==
    /\ HeuristicAnalysisReturned
    /\ azRequest.videos = <<>>
    /\ azRequest.analysis_type = "full"
    /\ azResult.path = "try"
    /\ Len(azCalls) = 5

\* the last Len(entries) elements of items are entries
EndsWith(items, entries) ==
    /\ Len(items) >= Len(entries)
    /\ SubSeq(items, Len(items) - Len(entries) + 1, Len(items)) = entries

\* what C9 says of the three category values of a local set or a result
ConstantsAppended(values) ==
    /\ values.format_trends.source = "heuristic" =>
          /\ EndsWith(values.format_trends.items,
                <<"Hook (0-3s) > Problem/Pain Point (3-8s) > Solution/Value (8-20s) > CTA (last 5s)",
                  "Fast-paced editing with text overlays and background music">>)
          /\ Len(values.format_trends.items) \in 2..5
    /\ values.engagement_tactics.source = "heuristic" =>
          /\ EndsWith(values.engagement_tactics.items,
                <<"Open loops (creating curiosity gaps that keep viewers watching)",
                  "Relatable scenarios that prompt viewers to tag friends",
                  "Controversial or counterintuitive statements to drive discussion">>)
          /\ Len(values.engagement_tactics.items) \in 3..5
    /\ values.content_themes.source = "heuristic" =>
          /\ EndsWith(values.content_themes.items,
                <<"Life hacks and everyday problem-solving",
                  "Behind-the-scenes or 'day in the life' content">>)
          /\ Len(values.content_themes.items) \in 2..5

\* C9: for every video list, the empty one included, a heuristic category
\* analysis ends with its constant entries: format_trends with the same 2
\* trends, engagement_tactics with the same 3 tactics, content_themes with
\* the same 2 themes, the lists being 2..5, 3..5 and 2..5 long.
C9_ConstantsAlwaysAppended ==
    ConstantsAppended(azLocals) /\ ConstantsAppended(azResult)

\* a heuristic result whose three lists hold every detected entry and the
\* constants: 5 entries each
C9_Witness ==
    /\ HeuristicAnalysisReturned
    /\ Len(azRequest.videos) > 0
    /\ Len(azResult.format_trends.items) = 5
    /\ Len(azResult.engagement_tactics.items) = 5
    /\ Len(azResult.content_themes.items) = 5

\* C10: whichever generation calls fail or give unusable output,
\* analyze_videos is either awaiting a step it can take (a category analysis
\* still to run, or the summary) or has returned, it makes at most five
\* generation calls, and the result it returns has four sequence fields
\* that are lists, none of them None.
C10_AlwaysReturnsLists ==
    /\ azPc \in {"analyze", "returned"}
    /\ azPc = "analyze" =>
          Len(azCalls) <= Len(categories_of(azRequest.analysis_type))
    /\ Len(azCalls) <= 5
    /\ azPc = "returned" =>
          /\ azResult.path \in {"try", "except"}
          /\ \A category \in DOMAIN azLocals : azResult[category].kind = "list"

\* a result returned by the except block after a generation call gave JSON
\* null for one category and the summary call failed
C10_Witness ==
    /\ azPc = "returned"
    /\ Len(azRequest.videos) > 0
    /\ \E category \in DOMAIN azLocals : azLocals[category].kind = "null"
    /\ azResult.path = "except"
    /\ azResult.hook_patterns.source = "heuristic"
    /\ Len(azCalls) = 5

\* the first video of the request is the sample record: its title, and "I"
\* among the first five words of its description
MorningHabitsFirst ==
    /\ Len(azRequest.videos) > 0
    /\ azRequest.videos[1].title = "5 Morning Habits That Changed My Life"
    /\ HasText(azRequest.videos[1].description)
    /\ "I" \in Range(SubSeq(Words(azRequest.videos[1].description), 1, 5))

Between(s, before, after) ==
    LET i == Find(s, before, 1)
        rest == Suffix(s, i + Len(before) - 1)
        j == Find(rest, after, 1)
    IN  IF i = 0 THEN None
        ELSE IF after = "" \/ j = 0 THEN rest
        ELSE Prefix(rest, j - 1)

\* the summary of a returned result was composed by _generate_summary
HeuristicSummaryReturned ==
    azPc = "returned" /\ azResult.summary # GptSummaryText

\* C18: each clause of a heuristic summary names entries of its own result
\* and nothing else: the hook clause the types of all its hook patterns, the
\* format clause its first format trend, the engagement clause its first two
\* tactics, the theme clause its first two themes (trends, tactics and
\* themes lower-cased); the clause of an empty sequence adds no text.
C18_SummaryNamesOwnEntries ==
    HeuristicSummaryReturned =>
       LET summary == azResult.summary
           hooks   == azResult.hook_patterns.items
           trends  == azResult.format_trends.items
           tactics == azResult.engagement_tactics.items
           themes  == azResult.content_themes.items
           hook_clause   == Between(summary, "typically use ", " hooks, ")
           format_clause == Between(summary, "with a structure that typically follows ", ". ")
           tactic_clause == Between(summary, "Successful videos employ ",
                                    " to drive viewer interaction. ")
           theme_clause  == Between(summary, "The most popular content focuses on ", "")
       IN  /\ IF Len(hooks) = 0 THEN ~Contains(summary, " hooks, ")
              ELSE /\ \A i \in DOMAIN hooks : Contains(hook_clause, hooks[i].type)
                   /\ \A word \in Range(Split(hook_clause, " ")) :
                         \/ word = "and"
                         \/ \E i \in DOMAIN hooks :
                               word \in {hooks[i].type, hooks[i].type \o ","}
           /\ IF Len(trends) = 0 THEN format_clause = None
              ELSE format_clause = Lower(trends[1])
           /\ IF Len(tactics) = 0 THEN tactic_clause = None
              ELSE tactic_clause =
                      Lower(tactics[1]) \o " and "
                      \o (IF Len(tactics) > 1 THEN Lower(tactics[2]) ELSE "")
           /\ IF Len(themes) = 0 THEN theme_clause = None
              ELSE theme_clause =
                      Lower(themes[1])
                      \o (IF Len(themes) > 1 THEN " and " \o Lower(themes[2]) ELSE "")
                      \o "."

\* a heuristic summary over a generated list of trends and heuristic tactics
C18_Witness ==
    /\ HeuristicSummaryReturned
    /\ azResult.path = "try"
    /\ azResult.format_trends.source = "gpt"
    /\ azResult.engagement_tactics.source = "heuristic"
    /\ Len(azRequest.videos) = 2
    /\ Contains(azResult.summary, "follows jump cuts every 2 seconds. ")

\* analyze_videos has returned hook patterns found by _analyze_hooks
HeuristicHooksReturned ==
    azPc = "returned" /\ azResult.hook_patterns.source = "heuristic"

\* the hook classes in the order _analyze_hooks checks them
HookClasses == <<"question-based", "shock-based", "number-based", "personal-story">>

\* the position of a hook class in that order
ClassRank(type) == CHOOSE c \in DOMAIN HookClasses : HookClasses[c] = type

\* for each video list and each class, the position of the first video of
\* the list that matches the class, 0 when none does; computed once
first_matches ==
    [videos \in VideoLists |->
        [c \in DOMAIN HookClasses |->
            LET matching ==
                    {i \in DOMAIN videos :
                        IF c = 1 THEN is_question_hook(videos[i])
                        ELSE IF c = 2 THEN is_shock_hook(videos[i])
                        ELSE IF c = 3 THEN is_number_hook(videos[i])
                        ELSE is_story_hook(videos[i])}
            IN  IF matching = {} THEN 0
                ELSE CHOOSE i \in matching : \A j \in matching : i <= j]]

\* C23: the heuristic hook analysis emits one pattern for each class that
\* some video matches and none for the others, in the order question-based,
\* shock-based, number-based, personal-story whatever the order of the
\* videos, and the example of a pattern is the title of the first video, in
\* the order of the request, that matches the class.
C23_OnePatternPerClassInOrder ==
    HeuristicHooksReturned =>
        LET items == azResult.hook_patterns.items
            videos == azRequest.videos
            first == first_matches[videos]
        IN  /\ \A i \in DOMAIN items : items[i].type \in Range(HookClasses)
            /\ \A i, j \in DOMAIN items :
                   i < j => ClassRank(items[i].type) < ClassRank(items[j].type)
            /\ \A i \in DOMAIN items :
                   /\ first[ClassRank(items[i].type)] # 0
                   /\ items[i].example = videos[first[ClassRank(items[i].type)]].title
            /\ \A c \in DOMAIN HookClasses :
                   first[c] # 0 => \E i \in DOMAIN items : items[i].type = HookClasses[c]

\* two videos that both match the question class, the later of the list
\* first: its title is the example, and the number pattern comes second
C23_Witness ==
    /\ HeuristicHooksReturned
    /\ azRequest.videos = <<VideoList[4], VideoList[3]>>
    /\ azResult.hook_patterns.items =
          <<[type |-> "question-based", example |-> "Best of 2023"],
            [type |-> "number-based", example |-> "Best of 2023"]>>

\* C24: a number-based pattern is emitted if and only if the title of some
\* video holds one of the numbers 1 to 10 as a word of its own; digits
\* inside a longer word (a year) do not produce the pattern.
C24_NumberHookIffStandaloneNumber ==
    HeuristicHooksReturned =>
        ((\E i \in DOMAIN azResult.hook_patterns.items :
             azResult.hook_patterns.items[i].type = "number-based")
         <=>
         (\E i \in DOMAIN azRequest.videos :
             \E word \in Range(Words(azRequest.videos[i].title)) :
                word \in {"1", "2", "3", "4", "5", "6", "7", "8", "9", "10"}))

\* C25: when one category is asked for ("hooks", "format", "engagement" or
\* "themes"), the three other categories of the returned result are empty,
\* whatever the generation calls returned.
C25_OnlyRequestedCategory ==
    (azPc = "returned"
        /\ azRequest.analysis_type \in {"hooks", "format", "engagement", "themes"}) =>
        \A category \in DOMAIN azLocals :
            category \notin Range(categories_of(azRequest.analysis_type))
                => azResult[category].items = <<>>

\* the entries a heuristic category of the returned result holds
HeuristicEntries(category) ==
    IF azResult[category].source = "heuristic"
    THEN Range(azResult[category].items) ELSE {}

\* hook patterns and another category have both been returned by heuristics
HeuristicPairReturned(category) ==
    /\ azPc = "returned"
    /\ azResult.hook_patterns.source = "heuristic"
    /\ azResult[category].source = "heuristic"

\* C29: when the hook patterns and the engagement tactics are both
\* heuristic, a question-based pattern comes with the direct-questions
\* tactic; when the hook patterns and the format trends are both heuristic,
\* a number-based pattern comes with the list-based trend.
C29_HooksImplyTacticAndTrend ==
    /\ HeuristicPairReturned("engagement_tactics") =>
          ((\E pattern \in HeuristicEntries("hook_patterns") :
               pattern.type = "question-based")
           => "Direct questions to viewers to encourage comments"
                 \in HeuristicEntries("engagement_tactics"))
    /\ HeuristicPairReturned("format_trends") =>
          ((\E pattern \in HeuristicEntries("hook_patterns") :
               pattern.type = "number-based")
           => "List-based format (e.g., '5 tips', '3 mistakes')"
                 \in HeuristicEntries("format_trends"))

\* the converses fail: a "?" inside the title and the digit 0 give the
\* tactic and the trend, but neither the question-based nor the number-based
\* pattern
C29_Witness ==
    /\ HeuristicPairReturned("engagement_tactics")
    /\ HeuristicPairReturned("format_trends")
    /\ azRequest.videos = <<VideoList[5]>>
    /\ "Direct questions to viewers to encourage comments"
          \in HeuristicEntries("engagement_tactics")
    /\ "List-based format (e.g., '5 tips', '3 mistakes')"
          \in HeuristicEntries("format_trends")
    /\ HeuristicEntries("hook_patterns") = {}

---------------------------------------------------------------------------
(* The three agents side by side: one request, handed to any one of them   *)

InitAgents == InitPlanner \/ InitWriter \/ InitAnalyzer

NextAgents == NextPlanner \/ NextWriter \/ NextAnalyzer

SpecAgents == InitAgents /\ [][NextAgents]_vars

\* the failed generation calls generate_script has logged at a step
FailedAt(step) ==
    \E i \in DOMAIN swCalls : swCalls[i].step = step /\ ~swCalls[i].generated

\* C12: in every stage a failed generation call is followed by the
\* heuristic path, whose output is the step's output, and the request does
\* not end without a result: the planner returns the template plan (or the
\* fallback plan), the scriptwriter's hook, body and CTA are those of the
\* templates and generate_script does not raise, an analyzer category holds
\* the heuristic analysis and the summary is the composed one.
C12_FailureYieldsHeuristicOutput ==
    /\ (Len(vpCalls) > 0 /\ ~vpCalls[1].generated) => HeuristicPlan
    /\ (FailedAt("_select_hook") \/ FailedAt("_select_cta")) => swPc # "raised"
    /\ (FailedAt("_select_hook") /\ swPc # "raised") =>
           \E result \in select_hook(swRequest.hook_patterns, selected_theme, None) :
              hook_selection = [type |-> result.type, hook |-> result.hook]
    /\ FailedAt("_generate_script_body") =>
           script_body = script_body_template(hook_selection.hook, selected_theme)
    /\ (FailedAt("_select_cta") /\ swPc = "returned") =>
           \E result \in select_cta(swRequest.platform, selected_theme, None) :
              swResponse.cta = result.cta
    /\ \A category \in DOMAIN azLocals :
           azLocals[category].source = "heuristic" =>
              azLocals[category].items = analyses[azRequest.videos][category]
    /\ (azPc = "returned" /\ azResult.path = "try"
           /\ azResult.summary # GptSummaryText) =>
           azResult.summary =
              generate_summary(azRequest.videos, azLocals.hook_patterns.items,
                               azLocals.format_trends.items,
                               azLocals.engagement_tactics.items,
                               azLocals.content_themes.items)

\* no step occurs twice in a log of generation calls
NoStepTwice(steps) ==
    \A i, j \in DOMAIN steps : steps[i] = steps[j] => i = j

\* C13: within one request each generative step invokes the generation
\* service at most once, whether or not the call fails: the planner makes at
\* most one call, the scriptwriter at most one each for hook, body and CTA,
\* the analyzer at most one per category and one for the summary.
C13_AtMostOneCallPerStep ==
    /\ Len(vpCalls) <= 1
    /\ NoStepTwice([i \in DOMAIN swCalls |-> swCalls[i].step])
    /\ Len(swCalls) <= 3
    /\ NoStepTwice(azCalls)

\* a template plan returned after the one generation call had failed
C13_Witness ==
    /\ vpResult.path = "template"
    /\ vpCalls = <<PlanCall(FALSE)>>

---------------------------------------------------------------------------
(* full_pipeline: the three agents in sequence                             *)

\* VideoData(**video) raises on a body video without the required views
valid_video(video) == "views" \in DOMAIN video

\* the videos of the request bodies: no video, the first sample video, and
\* a video that lacks a required field
PipelineVideoLists ==
    {<<>>, SubSeq(VideoList, 1, 1),
     <<[title |-> "Untitled", description |-> None]>>}

PipelineRequests == [videos : PipelineVideoLists, platform : {"TikTok", "YouTube"}]

\* the generation service during one request: every call fails, or every
\* call returns what was asked for
ServiceModes == {"down", "up"}

\* every generation call of the request so far went the way the service
\* is: the analyzer's category calls and summary call, the scriptwriter's
\* calls, the planner's call
Served ==
    /\ \A category \in DOMAIN azLocals :
          \/ azLocals[category].source = "initial"
          \/ /\ fpService = "down"
             /\ azLocals[category].source = "heuristic"
          \/ /\ fpService = "up"
             /\ azLocals[category].source = "gpt"
             /\ azLocals[category].kind = "list"
             /\ azLocals[category].of = element_type(category)
    /\ azPc = "returned" =>
          ((azResult.summary = GptSummaryText) <=> (fpService = "up"))
    /\ \A i \in DOMAIN swCalls : swCalls[i].generated <=> (fpService = "up")
    /\ \A i \in DOMAIN vpCalls : vpCalls[i].generated <=> (fpService = "up")

\* ScriptRequest(hook_patterns=analysis_result.get("hook_patterns", []), ...)
script_request(analysis_result, platform) ==
    [hook_patterns      |-> analysis_result.hook_patterns.items,
     format_trends      |-> analysis_result.format_trends.items,
     engagement_tactics |-> analysis_result.engagement_tactics.items,
     content_themes     |-> analysis_result.content_themes.items,
     platform           |-> platform]

\* VisualPlanRequest with the hook text handed on where the title belongs
visual_request_hook_text(script_result, platform) ==
    [script   |-> script_result.script,
     hook     |-> Split(script_result.script, "\n\n")[1],
     cta      |-> script_result.cta,
     niche    |-> script_result.theme,
     tone     |-> "engaging and informative",
     platform |-> platform]

\* VisualPlanRequest(script=script_result.script, hook=script_result.title, ...)
visual_request(script_result, platform) ==
    [script   |-> script_result.script,
     hook     |-> script_result.title,
     cta      |-> script_result.cta,
     niche    |-> script_result.theme,
     tone     |-> "engaging and informative",
     platform |-> platform]

\* Step 1 begins: the body's videos validate and the analysis request is built
StartAnalysis ==
    /\ fpPc = "start"
    /\ \A i \in DOMAIN fpRequest.videos : valid_video(fpRequest.videos[i])
    /\ azRequest' = [videos |-> fpRequest.videos, analysis_type |-> "full"]
    /\ azPc' = "analyze"
    /\ fpPc' = "analysis"
    /\ UNCHANGED <<azLocals, azCalls, azResult, plannerVars, writerVars,
                   fpRequest, fpService, fpResponse, aloneVars>>

\* await content_agent.process_request(analysis_request)
AnalysisStage ==
    /\ fpPc = "analysis"
    /\ NextAnalyzer
    /\ Served'

\* Step 2 begins: the script request is built from the analysis result
StartScript ==
    /\ fpPc = "analysis"
    /\ azPc = "returned"
    /\ swRequest' = script_request(azResult, fpRequest.platform)
    /\ swPc' = "select_theme"
    /\ fpPc' = "script"
    /\ UNCHANGED <<selected_theme, hook_selection, script_body, swCalls, swRaised,
                   swResponse, plannerVars, analyzerVars, fpRequest, fpService,
                   fpResponse, aloneVars>>

\* scriptwriter_agent.generate_script(script_request)
ScriptStage ==
    /\ fpPc = "script"
    /\ NextWriter
    /\ Served'

\* Step 3 begins: the visual request is built from the script result
StartVisualPlan ==
    /\ fpPc = "script"
    /\ swPc = "returned"
    /\ vpRequest' = visual_request(swResponse, fpRequest.platform)
    /\ vpResult' = NoPlan
    /\ fpPc' = "visual_plan"
    /\ UNCHANGED <<vpCalls, writerVars, analyzerVars, fpRequest, fpService,
                   fpResponse, aloneVars>>

\* the transitions random.choice draws during a pipeline request
PipelineTransitions == SubSeq(transitions, 1, 2)

\* visual_planner_agent.create_visual_plan(visual_request): the request is
\* the validated VisualPlanRequest the handler has just built from a
\* ScriptResponse, on which no statement of the template path raises, and
\* _generate_visual_plan_with_gpt catches what its own parsing raises, so
\* the except branch of create_visual_plan is not a way out of this call
VisualPlanStage ==
    /\ fpPc = "visual_plan"
    /\ \/ GptPlanReturned
       \/ TemplatePlanDrawn(PipelineTransitions)
    /\ Served'

\* return {"analysis": ..., "script": ..., "visual_plan": ...}
PipelineReturned ==
    /\ fpPc = "visual_plan"
    /\ PlanReturned
    /\ fpResponse' = [analysis |-> azResult, script |-> swResponse,
                      visual_plan |-> vpResult]
    /\ fpPc' = "returned"
    /\ UNCHANGED <<plannerVars, writerVars, analyzerVars, fpRequest, fpService,
                   aloneVars>>

\* except Exception: HTTPException(500), on a video that does not validate
\* or on an exception out of generate_script
PipelineFailed ==
    /\ \/ /\ fpPc = "start"
          /\ \E i \in DOMAIN fpRequest.videos : ~valid_video(fpRequest.videos[i])
       \/ /\ fpPc = "script"
          /\ swPc = "raised"
    /\ fpPc' = "failed"
    /\ UNCHANGED <<plannerVars, writerVars, analyzerVars, fpRequest, fpService,
                   fpResponse, aloneVars>>

InitPipeline ==
    /\ fpRequest \in PipelineRequests
    /\ fpPc = "start"
    /\ fpService \in ServiceModes
    /\ fpResponse = NoResponse
    /\ PlannerIdle
    /\ WriterIdle
    /\ AnalyzerIdle
    /\ AloneIdle

NextPipeline ==
    \/ StartAnalysis \/ AnalysisStage
    \/ StartScript \/ ScriptStage
    \/ StartVisualPlan \/ VisualPlanStage
    \/ PipelineReturned \/ PipelineFailed

SpecPipeline == InitPipeline /\ [][NextPipeline]_vars

\* the stages as the handler reaches them: each inherits the results of the
\* stage before it, and the response holds the three results
StagesInherit ==
    /\ swPc # "idle" =>
          /\ azPc = "returned"
          /\ swRequest.hook_patterns = azResult.hook_patterns.items
          /\ swRequest.format_trends = azResult.format_trends.items
          /\ swRequest.engagement_tactics = azResult.engagement_tactics.items
          /\ swRequest.content_themes = azResult.content_themes.items
    /\ vpResult.path # "idle" =>
          /\ swPc = "returned"
          /\ vpRequest.script = swResponse.script
          /\ vpRequest.hook = swResponse.title
          /\ vpRequest.cta = swResponse.cta
          /\ vpRequest.niche = swResponse.theme
    /\ fpPc = "returned" =>
          /\ azPc = "returned" /\ fpResponse.analysis = azResult
          /\ swPc = "returned" /\ fpResponse.script = swResponse
          /\ PlanReturned /\ fpResponse.visual_plan = vpResult

\* the steps of the handler go forward: a stage that has returned is not
\* entered again and its result stays
StagesForward ==
    /\ <<fpPc, fpPc'>> \in
          {<<"start", "analysis">>, <<"analysis", "script">>,
           <<"script", "visual_plan">>, <<"visual_plan", "returned">>,
           <<"start", "failed">>, <<"script", "failed">>} \cup
          {<<pc, pc>> : pc \in {"start", "analysis", "script", "visual_plan"}}
    /\ azPc = "returned" => UNCHANGED <<azPc, azResult, azCalls>>
    /\ swPc = "returned" => UNCHANGED <<swPc, swResponse, swCalls>>
    /\ PlanReturned => UNCHANGED <<vpResult, vpCalls>>

\* C14: the pipeline runs analysis, script and visual plan strictly forward
\* and once each; the scriptwriter starts only after the analyzer has
\* returned and its request holds the analysis' four lists, the planner
\* starts only after the scriptwriter has returned and its request holds the
\* script, the title as hook, the cta and the theme as niche; a successful
\* response holds the three results.
C14_StagesForwardOnce == []StagesInherit /\ [][StagesForward]_vars

\* a successful response built from heuristic results of a non-empty video list
C14_Witness ==
    /\ fpPc = "returned"
    /\ fpService = "down"
    /\ Len(fpRequest.videos) = 1
    /\ fpResponse.visual_plan.path = "template"
    /\ Len(fpResponse.analysis.hook_patterns.items) = 2
    /\ fpResponse.visual_plan.title = fpResponse.script.title

\* the timestamps of the plan's scenes, in order
SceneTimestamps(plan) == [i \in DOMAIN plan.scenes |-> plan.scenes[i].timestamp]

\* a pipeline response every generation call of which had failed
ReturnedServiceDown == fpPc = "returned" /\ fpService = "down"

\* C26: when every generation call fails, the script the pipeline returns
\* is four paragraphs (hook, problem, solution, CTA) joined by blank lines,
\* and its visual plan has exactly four scenes, the hook scene 0:00-0:05,
\* two content scenes of 10 seconds each and the CTA scene 0:25-0:30, with
\* total_duration "0:30", whatever the videos, the platform and the
\* script's estimated_duration are.
C26_FourScenesWhenServiceDown ==
    ReturnedServiceDown =>
        /\ Len(Split(fpResponse.script.script, "\n\n")) = 4
        /\ SceneTimestamps(fpResponse.visual_plan) =
              <<"0:00-0:05", "0:05-0:15", "0:15-0:25", "0:25-0:30">>
        /\ fpResponse.visual_plan.total_duration = "0:30"

\* such a response for a video list that is not empty, on the platform whose
\* default duration is not 0:40, with a script estimated at more than the 30
\* seconds of its plan
C26_Witness ==
    /\ ReturnedServiceDown
    /\ Len(fpRequest.videos) > 0
    /\ fpRequest.platform = "YouTube"
    /\ fpResponse.script.estimated_duration > 30
    /\ Len(fpResponse.visual_plan.scenes) = 4

---------------------------------------------------------------------------
(* The planner's helpers, called on their own                              *)

\* niche_music of _suggest_music, in the order the dict is written
niche_music ==
    <<[key |-> "productivity", value |-> "Upbeat lo-fi with light percussion"],
      [key |-> "tech",         value |-> "Modern electronic with tech sounds"],
      [key |-> "health",       value |-> "Calm ambient with nature elements"],
      [key |-> "finance",
       value |-> "Professional corporate with positive progression"],
      [key |-> "home",         value |-> "Cozy acoustic with warm tones"],
      [key |-> "beauty",       value |-> "Stylish pop with fashionable beats"],
      [key |-> "fashion",      value |-> "Trendy electronic with runway vibes"],
      [key |-> "travel",
       value |-> "Exotic instrumental with cultural elements"],
      [key |-> "cooking",
       value |-> "Light jazz with kitchen-friendly rhythm"],
      [key |-> "fitness",      value |-> "High-energy EDM with strong beat"]>>

\* tone_adjectives of _suggest_music
tone_adjectives ==
    <<[key |-> "energetic",    value |-> "high-energy"],
      [key |-> "calm",         value |-> "soothing"],
      [key |-> "professional", value |-> "polished"],
      [key |-> "fun",          value |-> "playful"],
      [key |-> "emotional",    value |-> "moving"],
      [key |-> "informative",  value |-> "neutral"],
      [key |-> "inspiring",    value |-> "uplifting"],
      [key |-> "humorous",     value |-> "quirky"]>>

\* niche_voice of _suggest_voiceover
niche_voice ==
    <<[key |-> "productivity", value |-> "Clear and motivational"],
      [key |-> "tech",         value |-> "Knowledgeable and straightforward"],
      [key |-> "health",       value |-> "Calming and authoritative"],
      [key |-> "finance",      value |-> "Professional and trustworthy"],
      [key |-> "home",         value |-> "Friendly and approachable"],
      [key |-> "beauty",       value |-> "Enthusiastic and detailed"],
      [key |-> "fashion",      value |-> "Stylish and confident"],
      [key |-> "travel",       value |-> "Adventurous and descriptive"],
      [key |-> "cooking",      value |-> "Warm and instructional"],
      [key |-> "fitness",      value |-> "Energetic and encouraging"]>>

\* tone_modifiers of _suggest_voiceover
tone_modifiers ==
    <<[key |-> "energetic",    value |-> "with high energy"],
      [key |-> "calm",         value |-> "with a soothing tone"],
      [key |-> "professional", value |-> "with expert delivery"],
      [key |-> "fun",          value |-> "with playful inflection"],
      [key |-> "emotional",    value |-> "with authentic feeling"],
      [key |-> "informative",  value |-> "with clear articulation"],
      [key |-> "inspiring",    value |-> "with motivational emphasis"],
      [key |-> "humorous",     value |-> "with comedic timing"]>>

\* s.capitalize(): the first character upper-cased, the rest lower-cased
capitalize(s) ==
    LET i == Find("abcdefghijklmnopqrstuvwxyz", Char(s, 1), 1)
    IN  IF Len(s) = 0 THEN ""
        ELSE (IF i = 0 THEN Char(s, 1) ELSE Char("ABCDEFGHIJKLMNOPQRSTUVWXYZ", i))
             \o Lower(Suffix(s, 1))

\* the loop over the items without its break: the last matching entry stays
RECURSIVE items_lookup_no_break(_, _, _)
items_lookup_no_break(items, text, found) ==
    IF Len(items) = 0 THEN found
    ELSE items_lookup_no_break(Tail(items), text,
                               IF Contains(Lower(text), Head(items).key)
                               THEN Head(items).value ELSE found)

\* for k, v in items: if k in text.lower(): found = v; break
RECURSIVE items_lookup(_, _, _)
items_lookup(items, text, found) ==
    IF Len(items) = 0 THEN found
    ELSE IF Contains(Lower(text), Head(items).key) THEN Head(items).value
    ELSE items_lookup(Tail(items), text, found)

\* _suggest_music
suggest_music(niche, tone) ==
    LET music_base == items_lookup(niche_music, niche, "Trendy background music")
        tone_modifier == items_lookup(tone_adjectives, tone, "")
    IN  IF tone_modifier # ""
        THEN capitalize(tone_modifier) \o " " \o Lower(music_base)
        ELSE music_base

\* _suggest_voiceover
suggest_voiceover(niche, tone) ==
    LET voice_base == items_lookup(niche_voice, niche, "Engaging and conversational")
        tone_modifier == items_lookup(tone_modifiers, tone, "")
    IN  IF tone_modifier # "" THEN voice_base \o " " \o tone_modifier
        ELSE voice_base

\* self.visual_effects.get(platform, self.visual_effects["TikTok"])
platform_effects_of(self, platform) ==
    Get(self.visual_effects, platform, self.visual_effects["TikTok"])

\* available_effects with the scene type left out of account
available_effects_unfiltered(platform_effects, scene_type) == platform_effects

\* the effects _suggest_visual_effects samples from, by scene type
available_effects(platform_effects, scene_type) ==
    LET hook_effects ==
            <<"Text Animation", "Zoom In", "Color Filter", "Motion Graphics">>
        cta_effects ==
            <<"Text Animation", "Sticker Overlay", "3D Text", "GIF Stickers">>
        preferred == IF scene_type = "hook" THEN hook_effects ELSE cta_effects
        filtered == SelectSeq(preferred, LAMBDA e : e \in Range(platform_effects))
    IN  IF scene_type \in {"hook", "cta"} /\ Len(filtered) > 0 THEN filtered
        ELSE platform_effects

\* random.sample(population, k): k elements at distinct positions, in any order
random_sample(population, k) ==
    {[i \in 1..k |-> population[p[i]]] :
        p \in {q \in [1..k -> 1..Len(population)] :
                  \A i, j \in 1..k : i # j => q[i] # q[j]}}

\* the values _suggest_visual_effects can return
suggest_visual_effects(self, platform, scene_type) ==
    LET available == available_effects(platform_effects_of(self, platform),
                                       scene_type)
    IN  random_sample(available, Min(2, Len(available)))

\* niche_footage of _suggest_stock_footage, in the order the dict is written
niche_footage ==
    <<[key |-> "productivity",
       value |-> <<"person working at desk", "calendar planning",
                   "time management app">>],
      [key |-> "tech",
       value |-> <<"smartphone usage", "app interface", "tech gadget closeup">>],
      [key |-> "health",
       value |-> <<"healthy meal prep", "workout sequence", "meditation scene">>],
      [key |-> "finance",
       value |-> <<"money saving visualization", "investment chart",
                   "budgeting app">>],
      [key |-> "home",
       value |-> <<"home organization", "cleaning transformation",
                   "interior design">>],
      [key |-> "beauty",
       value |-> <<"skincare routine", "makeup application",
                   "before/after transition">>],
      [key |-> "fashion",
       value |-> <<"outfit styling", "fabric closeup", "accessory details">>],
      [key |-> "travel",
       value |-> <<"destination views", "packing process", "travel hacks">>],
      [key |-> "cooking",
       value |-> <<"ingredient preparation", "cooking technique",
                   "final dish reveal">>],
      [key |-> "fitness",
       value |-> <<"workout demonstration", "before/after body transformation",
                   "gym equipment">>]>>

\* default_footage of _suggest_stock_footage
default_footage ==
    <<"person speaking to camera", "relevant B-roll footage",
      "text animation on solid background">>

\* keywords = [word.lower() for word in segment.split() if len(word) > 3]
keywords_of(segment) ==
    LET long == SelectSeq(Words(segment), LAMBDA word : Len(word) > 3)
    IN  [i \in 1..Len(long) |-> Lower(long[i])]

\* the keyword suggestions followed by all of the default footage
pad_defaults_all(keyword_suggestions) == keyword_suggestions \o default_footage

\* keyword_suggestions + default_footage[:3-len(keyword_suggestions)]
pad_defaults(keyword_suggestions) ==
    keyword_suggestions \o SubSeq(default_footage, 1, 3 - Len(keyword_suggestions))

\* the values _suggest_stock_footage can return
suggest_stock_footage(segment, niche) ==
    LET keywords == keywords_of(segment)
        suggestions == items_lookup(niche_footage, niche, <<>>)
    IN  IF Len(suggestions) > 0
        THEN IF Len(keywords) > 0
             THEN {Prefix(Append(suggestions, keyword \o " visual"), 3) :
                      keyword \in Range(keywords)}
             ELSE {Prefix(suggestions, 3)}
        ELSE IF Len(keywords) > 0
        THEN {pad_defaults([i \in DOMAIN drawn |-> drawn[i] \o " visual"]) :
                 drawn \in random_sample(keywords, Min(3, Len(keywords)))}
        ELSE {default_footage}

\* texts of scenes: empty, short with and without a word of more than 3
\* characters, and of 40 characters or more with a short first clause, with
\* more than 5 words and no ".", and with 3 words and no "."
SceneTexts ==
    {"", "Do it", "Drink water",
     "Plan your day. Write down three priorities before you open your inbox",
     "Write down three priorities before you open your inbox each morning",
     "Supercalifragilistic extraordinarily overwhelming"}

\* the largest number of segments of a script that is timed on its own
MaxTimedSegments == 13

\* segments of a script: short ones, long ones, and the two in turn
TimedSegments(n, kind) ==
    [i \in 1..n |->
        IF kind = "short" \/ (kind = "mixed" /\ i % 2 = 0) THEN "Drink water"
        ELSE "Write down three priorities before you open your inbox each morning"]

\* the calls of the helpers: niche and tone of a request, platform and scene
\* type of a scene, the segments of a script
HelperCalls ==
    [fn   : {"recommendations"},
     args : {<<niche, tone>> :
                niche \in {"lifestyle", "Productivity", "home fitness tech",
                           "FINANCE tips", "gardening"},
                tone \in {"engaging", "engaging and informative", "Calm",
                          "fun and energetic"}}]
    \cup
    [fn   : {"_suggest_visual_effects"},
     args : {<<platform, scene_type>> :
                platform \in {"TikTok", "Instagram", "YouTube", "Facebook"},
                scene_type \in {"hook", "content", "cta"}}]
    \cup
    [fn   : {"content_scenes"},
     args : {TimedSegments(n, kind) :
                n \in 1..MaxTimedSegments, kind \in {"short", "long", "mixed"}}]
    \cup
    [fn   : {"scene"},
     args : {<<scene_type, text, niche>> :
                scene_type \in {"hook", "content", "cta"},
                text \in SceneTexts,
                niche \in {"lifestyle", "Productivity hacks", "home fitness tech"}}]

\* music_recommendation and voiceover_style of a template plan; the same call
\* is made a second time
Recommendations ==
    /\ hcCall.fn = "recommendations"
    /\ Len(hcReturned) < 2
    /\ hcReturned' =
          Append(hcReturned,
                 [music_recommendation |-> suggest_music(hcCall.args[1], hcCall.args[2]),
                  voiceover_style |-> suggest_voiceover(hcCall.args[1], hcCall.args[2])])
    /\ UNCHANGED <<hcCall, plannerVars, writerVars, analyzerVars, pipelineVars,
                   concurrentVars, twinVars>>

\* visual_effects of one scene of a template plan
SuggestVisualEffects ==
    /\ hcCall.fn = "_suggest_visual_effects"
    /\ hcReturned = <<>>
    /\ \E effects \in suggest_visual_effects(planner_self, hcCall.args[1],
                                             hcCall.args[2]) :
          hcReturned' = <<effects>>
    /\ UNCHANGED <<hcCall, plannerVars, writerVars, analyzerVars, pipelineVars,
                   concurrentVars, twinVars>>

\* the timestamps of the content scenes of a template plan; they do not
\* depend on the transitions drawn, which are left at the first of the list
ContentScenesTimed ==
    /\ hcCall.fn = "content_scenes"
    /\ hcReturned = <<>>
    /\ LET segs == content_segments(hcCall.args)
           scenes == content_scenes(segs, 5, segment_duration(hcCall.args),
                                    [i \in 1..Len(segs) |-> transitions[1]])
       IN  hcReturned' = <<[i \in 1..Len(scenes) |-> scenes[i].timestamp]>>
    /\ UNCHANGED <<hcCall, plannerVars, writerVars, analyzerVars, pipelineVars,
                   concurrentVars, twinVars>>

\* stock_footage and text_overlay of one scene of a template plan: the hook
\* scene, a content scene or the CTA scene built from the text
SceneAnnotated ==
    /\ hcCall.fn = "scene"
    /\ hcReturned = <<>>
    /\ LET scene_type == hcCall.args[1]
           text == hcCall.args[2]
           niche == hcCall.args[3]
           scene == IF scene_type = "hook" THEN hook_scene(text, transitions[1])
                    ELSE IF scene_type = "cta" THEN cta_scene(text, 25)
                    ELSE content_scene(text, 5, 10, transitions[1])
           segment == IF scene_type = "cta"
                      THEN "creator speaking directly to camera" ELSE text
       IN  \E stock_footage \in suggest_stock_footage(segment, niche) :
              hcReturned' = <<[stock_footage |-> stock_footage,
                               text_overlay  |-> scene.text_overlay]>>
    /\ UNCHANGED <<hcCall, plannerVars, writerVars, analyzerVars, pipelineVars,
                   concurrentVars, twinVars>>

InitSuggest ==
    /\ hcCall \in HelperCalls
    /\ hcReturned = <<>>
    /\ PlannerIdle
    /\ WriterIdle
    /\ AnalyzerIdle
    /\ PipelineIdle
    /\ ConcurrentIdle
    /\ TwinIdle

NextSuggest ==
    \/ Recommendations \/ SuggestVisualEffects \/ ContentScenesTimed
    \/ SceneAnnotated

SpecSuggest == InitSuggest /\ [][NextSuggest]_vars

\* the position of the first entry whose keyword occurs in the lower-cased
\* text, 0 when there is none
FirstHit(items, text) ==
    LET hits == {i \in DOMAIN items : Contains(Lower(text), items[i].key)}
    IN  IF hits = {} THEN 0 ELSE CHOOSE i \in hits : \A j \in hits : i <= j

\* C16: the music recommendation and the voiceover style are functions of
\* (niche, tone): a second call with the same strings returns what the first
\* returned; the base is that of the first niche entry whose keyword occurs
\* in the lower-cased niche (else the generic base), the modifier that of
\* the first tone entry whose keyword occurs in the lower-cased tone (else
\* none), and both tables are entered at the same niche keyword.
C16_RecommendationsDeterministic ==
    hcCall.fn = "recommendations" =>
        LET niche == hcCall.args[1]
            tone == hcCall.args[2]
            n == FirstHit(niche_music, niche)
            v == FirstHit(niche_voice, niche)
            t == FirstHit(tone_adjectives, tone)
            m == FirstHit(tone_modifiers, tone)
            music_base ==
                IF n = 0 THEN "Trendy background music" ELSE niche_music[n].value
            voice_base ==
                IF v = 0 THEN "Engaging and conversational" ELSE niche_voice[v].value
        IN  \A i \in DOMAIN hcReturned :
                /\ hcReturned[i] = hcReturned[1]
                /\ Lower(hcReturned[i].music_recommendation) =
                       Lower(IF t = 0 THEN music_base
                             ELSE tone_adjectives[t].value \o " " \o music_base)
                /\ hcReturned[i].voiceover_style =
                       IF m = 0 THEN voice_base
                       ELSE voice_base \o " " \o tone_modifiers[m].value
                /\ n = v
                /\ n # 0 => niche_music[n].key = niche_voice[v].key

\* two calls for a niche and a tone that each hold several keywords
C16_Witness ==
    /\ hcCall = [fn |-> "recommendations",
                 args |-> <<"home fitness tech", "fun and energetic">>]
    /\ Len(hcReturned) = 2
    /\ hcReturned[2].music_recommendation =
          "High-energy modern electronic with tech sounds"
    /\ hcReturned[2].voiceover_style =
          "Knowledgeable and straightforward with high energy"

\* a call of _suggest_visual_effects has returned
EffectsReturned == hcCall.fn = "_suggest_visual_effects" /\ Len(hcReturned) = 1

\* the effects a scene type prefers, all effects for a content scene
PreferredEffects(scene_type, pool) ==
    IF scene_type = "hook"
    THEN {"Text Animation", "Zoom In", "Color Filter", "Motion Graphics"}
    ELSE IF scene_type = "cta"
    THEN {"Text Animation", "Sticker Overlay", "3D Text", "GIF Stickers"}
    ELSE pool

\* the effects a scene of that type on that platform is given its effects
\* from: the preferred ones the platform has, all of the platform's when it
\* has none of them; the platform is TikTok when it is not a known one
Candidates(platform, scene_type) ==
    LET pool == Range(IF platform \in DOMAIN visual_effects
                      THEN visual_effects[platform] ELSE visual_effects.TikTok)
        narrowed == PreferredEffects(scene_type, pool) \cap pool
    IN  IF narrowed = {} THEN pool ELSE narrowed

\* C20 as stated: every scene is given exactly 2 distinct effects, both from
\* the scene type's preferred effects the platform has, or from all of the
\* platform's effects when it has none of them.
C20_ExactlyTwoEffects ==
    EffectsReturned =>
        LET effects == hcReturned[1]
        IN  /\ Len(effects) = 2
            /\ effects[1] # effects[2]
            /\ Range(effects) \subseteq Candidates(hcCall.args[1], hcCall.args[2])

\* C20, amended: every scene is given min(2, number of candidates) distinct
\* effects, all of them candidates; that is 2 effects but for the hook scene
\* on Instagram and on YouTube, which is given the single preferred effect
\* the platform has.
C20_UpToTwoEffects ==
    EffectsReturned =>
        LET effects == hcReturned[1]
            platform == hcCall.args[1]
            scene_type == hcCall.args[2]
            candidates == Candidates(platform, scene_type)
        IN  /\ Range(effects) \subseteq candidates
            /\ Cardinality(Range(effects)) = Len(effects)
            /\ Len(effects) = Min(2, Cardinality(candidates))
            /\ Len(effects) \in {1, 2}
            /\ Len(effects) = 1 <=>
                  scene_type = "hook" /\ platform \in {"Instagram", "YouTube"}

\* the hook scene of an Instagram plan with its single effect
C20_Witness ==
    /\ EffectsReturned
    /\ hcCall.args = <<"Instagram", "hook">>
    /\ hcReturned[1] = <<"Color Filter">>

\* the content scenes of a script have been timed
ScenesTimed == hcCall.fn = "content_scenes" /\ Len(hcReturned) = 1

\* C19: the content scenes of a template plan all last d seconds, where d is
\* 30 divided by max(1, n - 2), floored, and then kept between 3 and 10, n
\* being the number of segments of the script; whatever the length of the
\* segments' texts.
C19_UniformClampedDuration ==
    ScenesTimed =>
        LET n == Len(hcCall.args)
            q == 30 \div (IF n - 2 < 1 THEN 1 ELSE n - 2)
            d == IF q < 3 THEN 3 ELSE IF q > 10 THEN 10 ELSE q
            timestamps == hcReturned[1]
        IN  /\ 3 <= d /\ d <= 10
            /\ Len(timestamps) = (IF n > 2 THEN n - 2 ELSE n)
            /\ \A i \in DOMAIN timestamps :
                   SceneSeconds([timestamp |-> timestamps[i]]) = d

\* a script of so many segments, long and short, that 30 // (n - 2) is below 3
C19_Witness ==
    /\ ScenesTimed
    /\ hcCall.args = TimedSegments(MaxTimedSegments, "mixed")
    /\ 30 \div (Len(hcCall.args) - 2) < 3
    /\ SubSeq(hcReturned[1], 1, 2) = <<"0:05-0:08", "0:08-0:11">>

---------------------------------------------------------------------------
(* Properties of the annotations of a scene                                *)

\* the annotations of a scene have been returned
SceneReturned == hcCall.fn = "scene" /\ Len(hcReturned) = 1

\* the words of more than 3 characters of the text the footage of a scene
\* is suggested from, lower-cased
LongWords(scene_type, text) ==
    {Lower(word) :
        word \in {w \in Range(Words(IF scene_type = "cta"
                                    THEN "creator speaking directly to camera"
                                    ELSE text)) : Len(w) > 3}}

\* C21: when the niche holds one of the ten niche keywords, the footage of a
\* scene holds the suggestions of the first such niche, and when the scene's
\* text has a word of more than 3 characters it also holds one suggestion
\* "<word> visual" for such a word.
C21_NicheListPlusKeyword ==
    SceneReturned =>
        LET n == FirstHit(niche_footage, hcCall.args[3])
            footage == Range(hcReturned[1].stock_footage)
            words == LongWords(hcCall.args[1], hcCall.args[2])
        IN  n # 0 =>
               /\ Range(niche_footage[n].value) \subseteq footage
               /\ words # {} => \E word \in words : (word \o " visual") \in footage

\* C30: every scene of a template plan is given exactly 3 footage
\* suggestions, whether they are a niche's own, keywords of the text filled
\* up with the defaults, or the defaults alone.
C30_ThreeSuggestions ==
    SceneReturned => Len(hcReturned[1].stock_footage) = 3

\* two keywords of the text filled up with the first default suggestion
C30_Witness ==
    /\ SceneReturned
    /\ hcCall.args = <<"content", "Drink water", "lifestyle">>
    /\ hcReturned[1].stock_footage =
          <<"water visual", "drink visual", "person speaking to camera">>

\* the overlay rule: the text when it is shorter than 40 characters, else its
\* first "."-delimited clause when that is shorter than 40 characters, else
\* its first 5 words and "..." when it has more than 5 words, else none
OverlayRule(text) ==
    LET clause == Split(text, ".")[1]
        words == Words(text)
    IN  IF Len(text) < 40 THEN text
        ELSE IF Len(clause) < 40 THEN clause
        ELSE IF Len(words) > 5
        THEN words[1] \o " " \o words[2] \o " " \o words[3] \o " " \o words[4]
             \o " " \o words[5] \o "..."
        ELSE None

\* C22 as stated: the overlay of every scene, hook and CTA scenes included,
\* follows the overlay rule applied to the scene's text.
C22_OverlayRuleEveryScene ==
    SceneReturned => hcReturned[1].text_overlay = OverlayRule(hcCall.args[2])

\* C22, amended: the overlay of a content scene follows the overlay rule;
\* the overlay of the hook scene and of the CTA scene is the text when it is
\* shorter than 40 characters and none otherwise.
C22_OverlayRuleContentScenes ==
    SceneReturned =>
        LET text == hcCall.args[2]
            overlay == hcReturned[1].text_overlay
        IN  IF hcCall.args[1] = "content" THEN overlay = OverlayRule(text)
            ELSE overlay = (IF Len(text) < 40 THEN text ELSE None)

\* a hook of 40 characters or more whose first clause is short: no overlay
C22_Witness ==
    /\ SceneReturned
    /\ hcCall.args[1] = "hook"
    /\ Len(hcCall.args[2]) >= 40
    /\ OverlayRule(hcCall.args[2]) = "Plan your day"
    /\ hcReturned[1].text_overlay = None

---------------------------------------------------------------------------
(* Two calls on the module-level visual_planner_agent side by side         *)

\* the arguments of the calls that run side by side
ConcurrentCalls ==
    [platform : {"TikTok", "Instagram", "YouTube"}, scene_type : {"hook", "cta"}]

\* the key of self.visual_effects that .get(platform, ...) reads
effects_key(self, platform) ==
    IF platform \in DOMAIN self.visual_effects THEN platform ELSE "TikTok"

\* a sampling that takes the drawn effects out of the platform's list
self_after_pop(self, platform, effects) ==
    [self EXCEPT !.visual_effects[effects_key(self, platform)] =
        SelectSeq(@, LAMBDA e : e \notin Range(effects))]

\* the planner's attributes after random.sample: the population is not written
self_after_sample(self, platform, effects) == self

\* platform_effects = self.visual_effects.get(platform, self.visual_effects["TikTok"])
GetPlatformEffects(r) ==
    /\ ccPc[r] = "get"
    /\ ccLocal' = [ccLocal EXCEPT ![r].platform_effects =
                      platform_effects_of(planner_self, ccRequest[r].platform)]
    /\ ccPc' = [ccPc EXCEPT ![r] = "filter"]
    /\ UNCHANGED <<planner_self, ccRequest, ccResult, plannerVars, writerVars,
                   analyzerVars, pipelineVars, helperVars,
                   twinVars>>

\* available_effects = [e for e in ..._effects if e in platform_effects],
\* or platform_effects itself
FilterEffects(r) ==
    /\ ccPc[r] = "filter"
    /\ ccLocal' = [ccLocal EXCEPT ![r].available_effects =
                      available_effects(ccLocal[r].platform_effects,
                                        ccRequest[r].scene_type)]
    /\ ccPc' = [ccPc EXCEPT ![r] = "sample"]
    /\ UNCHANGED <<planner_self, ccRequest, ccResult, plannerVars, writerVars,
                   analyzerVars, pipelineVars, helperVars,
                   twinVars>>

\* return random.sample(available_effects, min(2, len(available_effects)))
SampleEffects(r) ==
    /\ ccPc[r] = "sample"
    /\ \E effects \in random_sample(ccLocal[r].available_effects,
                                    Min(2, Len(ccLocal[r].available_effects))) :
          /\ ccResult' = [ccResult EXCEPT ![r] = effects]
          /\ planner_self' =
                self_after_sample(planner_self, ccRequest[r].platform, effects)
    /\ ccPc' = [ccPc EXCEPT ![r] = "returned"]
    /\ UNCHANGED <<ccRequest, ccLocal, plannerVars, writerVars, analyzerVars,
                   pipelineVars, helperVars,
                   twinVars>>

InitConcurrent ==
    /\ planner_self = PlannerTables
    /\ ccRequest \in [1..2 -> ConcurrentCalls]
    /\ ccPc = [r \in 1..2 |-> "get"]
    /\ ccLocal = [r \in 1..2 |-> [platform_effects |-> <<>>,
                                  available_effects |-> <<>>]]
    /\ ccResult = [r \in 1..2 |-> <<>>]
    /\ PlannerIdle
    /\ WriterIdle
    /\ AnalyzerIdle
    /\ PipelineIdle
    /\ HelperIdle
    /\ TwinIdle

NextConcurrent ==
    \/ \E r \in 1..2 : GetPlatformEffects(r)
    \/ \E r \in 1..2 : FilterEffects(r)
    \/ \E r \in 1..2 : SampleEffects(r)

SpecConcurrent == InitConcurrent /\ [][NextConcurrent]_vars

\* what each call has returned is something the call returns when it runs
\* alone on the planner as __init__ leaves it
ResultsAsAlone ==
    \A r \in DOMAIN ccPc :
        ccPc[r] = "returned" =>
            ccResult[r] \in suggest_visual_effects(PlannerTables,
                                                   ccRequest[r].platform,
                                                   ccRequest[r].scene_type)

\* C15: two calls of a heuristic on the shared planner do not interfere: no
\* step of either writes the planner's lookup tables or a call's arguments,
\* and under every interleaving of their statements each call returns
\* something it returns when it runs alone.
C15_NoInterference ==
    /\ [](planner_self = PlannerTables /\ ResultsAsAlone)
    /\ [][UNCHANGED <<planner_self, ccRequest>>]_vars

\* one call has returned while the other, which samples from the very list
\* the planner holds, is between its statements
C15_Witness ==
    /\ ccPc = <<"returned", "sample">>
    /\ ccRequest[1] = [platform |-> "YouTube", scene_type |-> "hook"]
    /\ ccRequest[2] = [platform |-> "YouTube", scene_type |-> "cta"]
    /\ ccResult[1] = <<"Motion Graphics">>
    /\ ccLocal[2].available_effects = planner_self.visual_effects.YouTube

---------------------------------------------------------------------------
(* generate_script on two requests, every generation call failing and      *)
(* random.choice drawing the same position for both                        *)

\* the fields of a ScriptRequest that only the prompts quote, and
\* target_length: the defaults, the values of a pipeline request, and a
\* request that asks for 15 seconds only
PromptOnlyFields ==
    <<[format_trends |-> <<>>, engagement_tactics |-> <<>>, summary |-> "",
       target_length |-> 60, niche_insights |-> [key \in {} |-> <<>>]],
      [format_trends |-> <<"Fast-paced editing with 3-5 second clips">>,
       engagement_tactics |-> <<"Open loops to maintain viewer interest">>,
       summary |-> "Analysis of 1 videos reveals effective hook strategies.",
       target_length |-> 30,
       niche_insights |-> [solutions |-> <<"Charge to 80 percent">>]],
      [format_trends |-> <<>>, engagement_tactics |-> <<>>, summary |-> "",
       target_length |-> 15, niche_insights |-> [key \in {} |-> <<>>]]>>

\* the fields both requests of a pair share
SharedFields ==
    [hook_patterns : HookPatternLists,
     content_themes : {<<>>, <<"">>, <<ThemeList[1], ThemeList[3]>>},
     platform : {"all", "TikTok"}]

\* ScriptRequest(**shared, **prompt_only)
full_script_request(shared, prompt_only) ==
    [hook_patterns      |-> shared.hook_patterns,
     format_trends      |-> prompt_only.format_trends,
     engagement_tactics |-> prompt_only.engagement_tactics,
     content_themes     |-> shared.content_themes,
     summary            |-> prompt_only.summary,
     target_length      |-> prompt_only.target_length,
     platform           |-> shared.platform,
     niche_insights     |-> prompt_only.niche_insights]

\* random.choice(request.content_themes) if request.content_themes else
\* "productivity hacks", random.choice returning the element at position pick
choose_theme(request, pick) ==
    IF Len(request.content_themes) > 0
    THEN request.content_themes[pick]
    ELSE "productivity hacks"

\* _select_hook when its generation call has failed: random.choice returns
\* the pattern and the template at the positions drawn and the action drawn
select_hook_fallback(hook_patterns, content_theme, pick) ==
    IF LacksType(hook_patterns)
    THEN [raised |-> "KeyError", type |-> "", hook |-> ""]
    ELSE IF ~HasFirstWord(content_theme)
    THEN [raised |-> "IndexError", type |-> "", hook |-> ""]
    ELSE IF Len(hook_patterns) > 0
    THEN LET selected_hook_type == hook_patterns[pick.pattern].type
             templates == Get(hook_templates, selected_hook_type,
                              hook_templates["shock-based"])
         IN  [raised |-> None, type |-> selected_hook_type,
              hook |-> fill_hook_template(templates[pick.template],
                                          content_theme, pick.action)]
    ELSE [raised |-> None, type |-> "shock-based",
          hook |-> generic_hook(content_theme)]

\* _generate_script_body when its generation call has failed: format_trends
\* is quoted in the prompt only
generate_script_body_fallback(hook, theme, format_trends) ==
    script_body_template(hook, theme)

\* a CTA that quotes the first engagement tactic when there is one
select_cta_quoting_tactic(engagement_tactics, platform, theme, pick) ==
    IF ~HasFirstWord(theme)
    THEN [raised |-> "IndexError", cta |-> ""]
    ELSE IF Len(engagement_tactics) > 0
    THEN [raised |-> None, cta |-> engagement_tactics[1]]
    ELSE [raised |-> None,
          cta |-> fill_cta_template(Get(cta_templates, Lower(platform),
                                        cta_templates["all"])[pick], theme)]

\* _select_cta when its generation call has failed: engagement_tactics is
\* quoted in the prompt only, random.choice returns the template at pick
select_cta_fallback(engagement_tactics, platform, theme, pick) ==
    IF ~HasFirstWord(theme)
    THEN [raised |-> "IndexError", cta |-> ""]
    ELSE [raised |-> None,
          cta |-> fill_cta_template(Get(cta_templates, Lower(platform),
                                        cta_templates["all"])[pick], theme)]

\* the positions random.choice can draw from a list, one where it is not called
Positions(list) == 1..Max(1, Len(list))

\* what the random.choice calls of _select_hook can draw: a pattern, one of
\* the four templates of a type and an action, or nothing when the request
\* has no pattern or the prompt cannot be built
HookPicks(hook_patterns, content_theme) ==
    IF Len(hook_patterns) > 0 /\ ~LacksType(hook_patterns)
    THEN [pattern : Positions(hook_patterns),
          template : Positions(hook_templates["shock-based"]),
          action : get_action_from_theme(content_theme)]
    ELSE {[pattern |-> 1, template |-> 1, action |-> "doing this"]}

\* a call's locals before its first statement
TwinStart(request) ==
    [request |-> request, selected_theme |-> None, hook_selection |-> NoHook,
     raised |-> None, response |-> NoScript]

\* selected_theme = random.choice(request.content_themes) if ... else default
TwinSelectTheme ==
    /\ twPc = "select_theme"
    /\ \E pick \in Positions(twRun[1].request.content_themes) :
          /\ twRun' = [r \in DOMAIN twRun |->
                          [twRun[r] EXCEPT !.selected_theme =
                              choose_theme(twRun[r].request, pick)]]
          /\ twPicks' = Append(twPicks, pick)
    /\ twPc' = "select_hook"
    /\ UNCHANGED <<plannerVars, writerVars, analyzerVars, pipelineVars,
                   helperVars, concurrentVars>>

\* hook_selection = self._select_hook(request.hook_patterns, selected_theme)
TwinSelectHook ==
    /\ twPc = "select_hook"
    /\ \E pick \in HookPicks(twRun[1].request.hook_patterns,
                              twRun[1].selected_theme) :
          LET selection(r) ==
                  select_hook_fallback(twRun[r].request.hook_patterns,
                                       twRun[r].selected_theme, pick)
          IN  /\ twRun' = [r \in DOMAIN twRun |->
                             IF selection(r).raised # None
                             THEN [twRun[r] EXCEPT !.raised = selection(r).raised]
                             ELSE [twRun[r] EXCEPT !.hook_selection =
                                      [type |-> selection(r).type,
                                       hook |-> selection(r).hook]]]
              /\ twPicks' = Append(twPicks, pick)
              /\ twPc' = IF \E r \in DOMAIN twRun : selection(r).raised # None
                         THEN "raised" ELSE "select_cta"
    /\ UNCHANGED <<plannerVars, writerVars, analyzerVars, pipelineVars,
                   helperVars, concurrentVars>>

\* script_body = ..., cta = self._select_cta(...), and the rest of
\* generate_script
TwinScriptReturned ==
    /\ twPc = "select_cta"
    /\ \E pick \in Positions(cta_templates["all"]) :
          LET body(r) ==
                  generate_script_body_fallback(twRun[r].hook_selection.hook,
                                                twRun[r].selected_theme,
                                                twRun[r].request.format_trends)
              cta(r) ==
                  select_cta_fallback(twRun[r].request.engagement_tactics,
                                      twRun[r].request.platform,
                                      twRun[r].selected_theme, pick)
          IN  /\ twRun' = [r \in DOMAIN twRun |->
                             IF cta(r).raised # None
                             THEN [twRun[r] EXCEPT !.raised = cta(r).raised]
                             ELSE [twRun[r] EXCEPT !.response =
                                      script_response(twRun[r].request,
                                                      twRun[r].selected_theme,
                                                      twRun[r].hook_selection,
                                                      body(r), cta(r).cta)]]
              /\ twPicks' = Append(twPicks, pick)
              /\ twPc' = IF \E r \in DOMAIN twRun : cta(r).raised # None
                         THEN "raised" ELSE "returned"
    /\ UNCHANGED <<plannerVars, writerVars, analyzerVars, pipelineVars,
                   helperVars, concurrentVars>>

InitTwin ==
    /\ \E shared \in SharedFields :
       \E i, j \in DOMAIN PromptOnlyFields :
          /\ i # j
          /\ twRun = <<TwinStart(full_script_request(shared, PromptOnlyFields[i])),
                       TwinStart(full_script_request(shared, PromptOnlyFields[j]))>>
    /\ twPicks = <<>>
    /\ twPc = "select_theme"
    /\ PlannerIdle
    /\ WriterIdle
    /\ AnalyzerIdle
    /\ PipelineIdle
    /\ HelperIdle
    /\ ConcurrentIdle

NextTwin == TwinSelectTheme \/ TwinSelectHook \/ TwinScriptReturned

SpecTwin == InitTwin /\ [][NextTwin]_vars

\* C27: when every generation call fails, target_length, format_trends,
\* engagement_tactics, summary and niche_insights have no influence on what
\* generate_script does: two requests that differ in nothing else and draw
\* the same random values raise the same exception or return the same
\* ScriptResponse, estimated_duration included.
C27_PromptOnlyFieldsWithoutInfluence ==
    /\ twPc = "returned" =>
          /\ twRun[1].response = twRun[2].response
          /\ twRun[1].response # NoScript
    /\ twPc = "raised" =>
          /\ twRun[1].raised = twRun[2].raised
          /\ twRun[1].raised # None

\* two requests, one with a pipeline's trends, tactics, summary and insights
\* and 30 seconds asked for, the other with none and 15 seconds asked for,
\* have returned a script estimated at more than 30 seconds
C27_Witness ==
    /\ twPc = "returned"
    /\ twRun[1].request.target_length = 30
    /\ Len(twRun[1].request.engagement_tactics) = 1
    /\ twRun[2].request.target_length = 15
    /\ Len(twRun[2].request.engagement_tactics) = 0
    /\ twRun[2].response.estimated_duration > 30
    /\ twRun[2].response.hook_type = "curiosity-gap"

====
